---- MODULE Spec2Model ----
(***************************************************************************)
(* Document-protocol registry (protocolo1.py): the four SQLite tables      *)
(* (usuarios, solicitantes, protocolos, logs_usuario), the registry        *)
(* classes that mutate them (AuthManager, SolicitantesCRUD,                *)
(* ProtocolosCRUD, LogManager, DatabaseManager) and the Streamlit pages    *)
(* that call them on behalf of a browser session.                          *)
(*                                                                         *)
(* Every browser session runs the script in a thread of its own; each SQL  *)
(* statement is committed on its own, so the statements of two script runs *)
(* interleave.  One action of the model is one committed statement (or one *)
(* page step without a write) of one script run.                           *)
(***************************************************************************)
EXTENDS Integers, Sequences, FiniteSets, TLC

----------------------------------------------------------------------------
(* Bounds of the exploration. *)

\* browser sessions open at the same time
NSessoes == 2
\* script runs explored from the initial state
MaxPassos == 3
\* last value of the clock
MaxAgora == 2
\* clock values per calendar year
TicksPorAno == 2
\* clock ticks per calendar day (DATE(timestamp))
TicksPorDia == 2
\* the window of the daily statistics in days: the 30 days of the query,
\* scaled to the clock
DiasDaJanela == 1
\* the last clock value where the statistics are followed past their window
MaxAgoraEstatisticas == 5

Sessoes == 1..NSessoes

----------------------------------------------------------------------------
(* Input domains: what a user can type into or select in the forms. *)

\* SQL NULL / Python None of a text column
NULO == "<NULL>"

Logins == {"admin", "ana"}
Senhas == {"admin123", "segredo"}
Nomes == {"Administrador", "Ana"}
Emails == {""}
Niveis == {"usuario", "admin"}
Titulos == {"T1", "T2"}
Tipos == {"Ofício", "Memorando"}
StatusOpcoes == {"Pendente", "Em Andamento", "Concluído", "Cancelado"}
SolNomes == {"S1", "S2"}
Telefones == {""}
Departamentos == {"RH"}

----------------------------------------------------------------------------
(* State. *)

VARIABLES
    usuarios,       \* table usuarios: a set of rows
    solicitantes,   \* table solicitantes
    protocolos,     \* table protocolos
    logs,           \* table logs_usuario, in insertion (id) order
    seq,            \* sqlite_sequence: last AUTOINCREMENT id given per table
    agora,          \* the clock (CURRENT_TIMESTAMP, datetime.now())
    sess,           \* st.session_state of every browser session
    run,            \* the script run of every session: position and locals
    passos          \* script runs started so far

vars == <<usuarios, solicitantes, protocolos, logs, seq, agora, sess, run, passos>>

db == <<usuarios, solicitantes, protocolos, logs, seq>>

----------------------------------------------------------------------------
(* Values and conversions. *)

\* hashlib.sha256(senha.encode()).hexdigest(): a digest is not the password
\* and two different passwords have different digests.
hash_senha(senha) == <<"sha256", senha>>

\* SQLite stores a Python bool in the BOOLEAN (numeric) column as 1 or 0.
SqlBool(b) == IF b THEN 1 ELSE 0

Digitos == <<"0", "1", "2", "3", "4", "5", "6", "7", "8", "9">>

RECURSIVE NumText(_)
\* str(n) of a natural number
NumText(n) ==
    IF n < 10 THEN Digitos[n + 1]
    ELSE NumText(n \div 10) \o Digitos[(n % 10) + 1]

\* json.dumps of the leaves of a details dictionary
JsonStr(s) == IF s = NULO THEN [t |-> "null", v |-> "null"]
              ELSE [t |-> "string", v |-> s]
JsonNum(n) == [t |-> "number", v |-> NumText(n)]
JsonBool(b) == [t |-> "bool", v |-> IF b THEN "true" ELSE "false"]

\* datetime.now().year
Ano(t) == t \div TicksPorAno

\* f"PROT-{ano}-{count + 1:04d}": the text is determined by, and determines,
\* the pair (ano, count + 1).
NumeroProtocolo(ano, n) == [prefixo |-> "PROT", ano |-> ano, sequencia |-> n]

\* the row of table t with the given id, as the set fetchone() returns
\* ({} for None)
Linha(t, id) == {r \in t : r.id = id}

\* the session's logged-in user tuple (id, usuario, nome, nivel_acesso, ativo)
Autenticado(s) == sess[s].user_data # {}
UserData(s) == CHOOSE u \in sess[s].user_data : TRUE

SessaoVazia ==
    [user_data |-> {}, editando_protocolo |-> 0, editando_solicitante |-> 0,
     editando_usuario |-> 0, confirmando_exclusao |-> FALSE, confirm_del |-> {}]

Ocioso == [pc |-> "idle", alvo |-> 0, args |-> <<>>, antigos |-> {}]

\* the run of session s is at position pc with these locals
Em(s, pc) == run[s].pc = pc
Vai(s, r) == run' = [run EXCEPT ![s] = r]
Fim(s) == run' = [run EXCEPT ![s] = Ocioso]

----------------------------------------------------------------------------
(* LogManager *)

\* a row of logs_usuario; ip_address and user_agent are never passed by any
\* caller and stay NULL
LogEntry(id, usuario_id, acao, tabela_afetada, registro_id, detalhes, t, status) ==
    [id |-> id, usuario_id |-> usuario_id, acao |-> acao,
     tabela_afetada |-> tabela_afetada, registro_id |-> registro_id,
     detalhes |-> detalhes, timestamp |-> t, status |-> status]

\* registrar_log as it would be if the callers' registro_id were dropped
registrar_log_sem_registro(usuario_id, acao, tabela_afetada, registro_id, detalhes, status) ==
    logs' = Append(logs, LogEntry(Len(logs) + 1, usuario_id, acao, tabela_afetada,
                                  0, detalhes, agora, status))

\* LogManager.registrar_log: one INSERT into logs_usuario, committed
registrar_log(usuario_id, acao, tabela_afetada, registro_id, detalhes, status) ==
    logs' = Append(logs, LogEntry(Len(logs) + 1, usuario_id, acao, tabela_afetada,
                                  registro_id, detalhes, agora, status))

----------------------------------------------------------------------------
(* DatabaseManager *)

\* the default administrator of init_database
AdminPadrao(id, t) ==
    [id |-> id, usuario |-> "admin", senha |-> hash_senha("admin123"),
     nome |-> "Administrador", email |-> NULO, nivel_acesso |-> "admin",
     ativo |-> 1, data_cadastro |-> t, ultimo_login |-> 0]

\* DatabaseManager.gerar_numero_protocolo: SELECT COUNT(*) FROM protocolos
gerar_numero_protocolo == NumeroProtocolo(Ano(agora), Cardinality(protocolos) + 1)

\* numero_protocolo as it would be without its UNIQUE constraint
NumeroLivre_sem_unique(numero) == TRUE

\* UNIQUE constraints of the schema
LoginLivre(usuario) == \A u \in usuarios : u.usuario # usuario
NumeroLivre(numero) == \A p \in protocolos : p.numero_protocolo # numero

\* init_database as it would be if it wrote the default admin on every run
\* (INSERT OR REPLACE without the count of admins)
init_database_or_replace(s) ==
    /\ Em(s, "idle")
    /\ passos < MaxPassos
    /\ passos' = passos + 1
    /\ IF LoginLivre("admin")
       THEN /\ usuarios' = usuarios \cup {AdminPadrao(seq.usuarios + 1, agora)}
            /\ seq' = [seq EXCEPT !.usuarios = @ + 1]
       ELSE /\ usuarios' = {IF u.usuario = "admin" THEN AdminPadrao(u.id, agora) ELSE u
                            : u \in usuarios}
            /\ UNCHANGED seq
    /\ Vai(s, [Ocioso EXCEPT !.pc = "page"])
    /\ UNCHANGED <<solicitantes, protocolos, logs, agora, sess>>

\* The script starts: DatabaseManager() runs init_database (module level,
\* executed by every script run).  The tables exist already; when no row has
\* nivel_acesso = 'admin' the default admin is inserted, and the INSERT
\* raises IntegrityError when the login 'admin' is taken, which ends the run.
init_database(s) ==
    /\ Em(s, "idle")
    /\ passos < MaxPassos
    /\ passos' = passos + 1
    /\ IF \E u \in usuarios : u.nivel_acesso = "admin"
       THEN /\ Vai(s, [Ocioso EXCEPT !.pc = "page"])
            /\ UNCHANGED <<usuarios, seq>>
       ELSE IF LoginLivre("admin")
            THEN /\ usuarios' = usuarios \cup {AdminPadrao(seq.usuarios + 1, agora)}
                 /\ seq' = [seq EXCEPT !.usuarios = @ + 1]
                 /\ Vai(s, [Ocioso EXCEPT !.pc = "page"])
            ELSE UNCHANGED <<usuarios, seq, run>>
    /\ UNCHANGED <<solicitantes, protocolos, logs, agora, sess>>

\* time passes
Tick ==
    /\ agora < MaxAgora
    /\ agora' = agora + 1
    /\ UNCHANGED <<usuarios, solicitantes, protocolos, logs, seq, sess, run, passos>>

----------------------------------------------------------------------------
(* AuthManager.login, called by pagina_login *)

\* the SELECT of login as it would be without "AND ativo = 1"
login_consulta_sem_ativo(tab, usuario, senha) ==
    {[id |-> u.id, usuario |-> u.usuario, nome |-> u.nome,
      nivel_acesso |-> u.nivel_acesso, ativo |-> u.ativo]
     : u \in {r \in tab : r.usuario = usuario /\ r.senha = hash_senha(senha)}}

\* login: SELECT id, usuario, nome, nivel_acesso, ativo FROM usuarios
\* WHERE usuario = ? AND senha = ? AND ativo = 1, over the table tab
login_consulta(tab, usuario, senha) ==
    {[id |-> u.id, usuario |-> u.usuario, nome |-> u.nome,
      nivel_acesso |-> u.nivel_acesso, ativo |-> u.ativo]
     : u \in {r \in tab : /\ r.usuario = usuario
                          /\ r.senha = hash_senha(senha)
                          /\ r.ativo = 1}}

\* pagina_login: the form is submitted; login() runs its SELECT
login_select(s, usuario, senha) ==
    /\ Em(s, "page")
    /\ ~Autenticado(s)
    /\ LET user == login_consulta(usuarios, usuario, senha)
       IN Vai(s, [pc |-> IF user # {} THEN "login_update" ELSE "login_falhou",
                  alvo |-> 0,
                  args |-> [usuario |-> usuario, senha |-> senha],
                  antigos |-> user])
    /\ UNCHANGED <<usuarios, solicitantes, protocolos, logs, seq, agora, sess, passos>>

\* the UPDATE of login as it would be without its WHERE clause
login_update_sem_where(s) ==
    /\ Em(s, "login_update")
    /\ usuarios' = {[u EXCEPT !.ultimo_login = agora] : u \in usuarios}
    /\ Vai(s, [run[s] EXCEPT !.pc = "login_log"])
    /\ UNCHANGED <<solicitantes, protocolos, logs, seq, agora, sess, passos>>

\* UPDATE usuarios SET ultimo_login = CURRENT_TIMESTAMP WHERE id = ?
login_update(s) ==
    /\ Em(s, "login_update")
    /\ LET user == CHOOSE u \in run[s].antigos : TRUE
       IN usuarios' = {IF u.id = user.id THEN [u EXCEPT !.ultimo_login = agora] ELSE u
                       : u \in usuarios}
    /\ Vai(s, [run[s] EXCEPT !.pc = "login_log"])
    /\ UNCHANGED <<solicitantes, protocolos, logs, seq, agora, sess, passos>>

\* the LOGIN entry; login() returns the user and the page stores it in the session
login_log(s) ==
    /\ Em(s, "login_log")
    /\ LET user == CHOOSE u \in run[s].antigos : TRUE
       IN /\ registrar_log(user.id, "LOGIN", "usuarios", user.id,
                [texto |-> "Login realizado com sucesso para usuário",
                 usuario |-> user.usuario], "sucesso")
          /\ sess' = [sess EXCEPT ![s].user_data = {user}]
    /\ Fim(s)
    /\ UNCHANGED <<usuarios, solicitantes, protocolos, seq, agora, passos>>

\* login_falhou as it would be if the entry named the user whose password
\* was wrong
login_falhou_com_id(s) ==
    /\ Em(s, "login_falhou")
    /\ LET conhecido == {u.id : u \in {r \in usuarios : r.usuario = run[s].args.usuario}}
       IN registrar_log(IF conhecido = {} THEN 0 ELSE CHOOSE i \in conhecido : TRUE,
                "LOGIN_FALHOU", "usuarios", 0,
                [texto |-> "Tentativa de login falhada para usuário",
                 usuario |-> run[s].args.usuario], "erro")
    /\ Fim(s)
    /\ UNCHANGED <<usuarios, solicitantes, protocolos, seq, agora, sess, passos>>

\* the LOGIN_FALHOU entry; login() returns None and the session stays logged out
login_falhou(s) ==
    /\ Em(s, "login_falhou")
    /\ registrar_log(0, "LOGIN_FALHOU", "usuarios", 0,
            [texto |-> "Tentativa de login falhada para usuário",
             usuario |-> run[s].args.usuario], "erro")
    /\ Fim(s)
    /\ UNCHANGED <<usuarios, solicitantes, protocolos, seq, agora, sess, passos>>

\* logout(): the LOGOUT entry, then every key of the session state is deleted
logout(s) ==
    /\ Em(s, "page")
    /\ Autenticado(s)
    /\ registrar_log(UserData(s).id, "LOGOUT", "usuarios", UserData(s).id,
            [texto |-> "Logout realizado para usuário",
             usuario |-> UserData(s).usuario], "sucesso")
    /\ sess' = [sess EXCEPT ![s] = SessaoVazia]
    /\ Fim(s)
    /\ UNCHANGED <<usuarios, solicitantes, protocolos, seq, agora, passos>>

----------------------------------------------------------------------------
(* Access policy *)

\* verificar_permissao as it would be if it compared the two levels for equality
verificar_permissao_por_igualdade(s, nivel_requerido) ==
    IF ~Autenticado(s) THEN FALSE
    ELSE UserData(s).nivel_acesso = nivel_requerido

\* verificar_permissao as it would be if it read the user's row again: the
\* level is that of the active row with the session's user id
verificar_permissao_pela_tabela(s, nivel_requerido) ==
    IF ~Autenticado(s) THEN FALSE
    ELSE \E u \in usuarios :
            /\ u.id = UserData(s).id /\ u.ativo = 1
            /\ IF nivel_requerido = "admin" THEN u.nivel_acesso = "admin"
               ELSE nivel_requerido = "usuario"
                    /\ u.nivel_acesso \in {"admin", "usuario"}

\* verificar_permissao(nivel_requerido), on the session's user_data[3]
verificar_permissao(s, nivel_requerido) ==
    IF ~Autenticado(s) THEN FALSE
    ELSE IF nivel_requerido = "admin" THEN UserData(s).nivel_acesso = "admin"
    ELSE IF nivel_requerido = "usuario"
         THEN UserData(s).nivel_acesso \in {"admin", "usuario"}
    ELSE FALSE

\* gerenciar_usuarios is routed to, and renders, only for an admin session
PaginaUsuarios(s) == Em(s, "page") /\ verificar_permissao(s, "admin")

----------------------------------------------------------------------------
(* AuthManager.criar_usuario, called by the form "novo_usuario" *)

\* INSERT INTO usuarios: the row is committed, or the UNIQUE constraint on
\* usuario raises IntegrityError
criar_usuario_insert(s, usuario, senha, nome, email, nivel_acesso) ==
    /\ PaginaUsuarios(s)
    /\ sess[s].editando_usuario = 0
    /\ LET args == [usuario |-> usuario, nome |-> nome, email |-> email,
                    nivel_acesso |-> nivel_acesso, por |-> UserData(s).id]
       IN IF LoginLivre(usuario)
          THEN /\ usuarios' = usuarios \cup
                    {[id |-> seq.usuarios + 1, usuario |-> usuario,
                      senha |-> hash_senha(senha), nome |-> nome, email |-> email,
                      nivel_acesso |-> nivel_acesso, ativo |-> 1,
                      data_cadastro |-> agora, ultimo_login |-> 0]}
               /\ seq' = [seq EXCEPT !.usuarios = @ + 1]
               /\ Vai(s, [pc |-> "criar_usuario_log", alvo |-> seq.usuarios + 1,
                          args |-> args, antigos |-> {}])
          ELSE /\ Vai(s, [pc |-> "criar_usuario_erro", alvo |-> 0,
                          args |-> args, antigos |-> {}])
               /\ UNCHANGED <<usuarios, seq>>
    /\ UNCHANGED <<solicitantes, protocolos, logs, agora, sess, passos>>

\* the CRIAR entry; criar_usuario returns True
criar_usuario_log(s) ==
    /\ Em(s, "criar_usuario_log")
    /\ registrar_log(run[s].args.por, "CRIAR", "usuarios", run[s].alvo,
            [usuario_criado |-> JsonStr(run[s].args.usuario),
             nome |-> JsonStr(run[s].args.nome),
             email |-> JsonStr(run[s].args.email),
             nivel_acesso |-> JsonStr(run[s].args.nivel_acesso)], "sucesso")
    /\ Fim(s)
    /\ UNCHANGED <<usuarios, solicitantes, protocolos, seq, agora, sess, passos>>

\* except sqlite3.IntegrityError: the handler calls registrar_log while the
\* connection of the failed INSERT is still open inside its transaction and
\* holds the write lock; the log INSERT waits out the busy timeout and raises
\* OperationalError (database is locked), which nothing catches.  No entry is
\* written and criar_usuario does not return.
criar_usuario_erro(s) ==
    /\ Em(s, "criar_usuario_erro")
    /\ Fim(s)
    /\ UNCHANGED <<usuarios, solicitantes, protocolos, logs, seq, agora, sess, passos>>

----------------------------------------------------------------------------
(* gerenciar_usuarios: the list.  The button "Confirmar Exclusão" is nested  *)
(* inside the button "Excluir": in the run that follows a click on it the    *)
(* outer button is False again, so the nested deletar_usuario call is never  *)
(* executed; the list deletes nothing.                                       *)

\* AuthManager.listar_usuarios
listar_usuarios == usuarios

\* "Editar" of a listed user
usuarios_editar(s, id) ==
    /\ PaginaUsuarios(s)
    /\ sess[s].editando_usuario = 0
    /\ id \in {u.id : u \in listar_usuarios}
    /\ sess' = [sess EXCEPT ![s].editando_usuario = id]
    /\ Fim(s)
    /\ UNCHANGED <<usuarios, solicitantes, protocolos, logs, seq, agora, passos>>

----------------------------------------------------------------------------
(* editar_usuario_modal *)

\* the page is shown while editando_usuario is set
ModalUsuario(s) == PaginaUsuarios(s) /\ sess[s].editando_usuario # 0

\* usuario_dados: SELECT * FROM usuarios WHERE id = editando_usuario
usuario_dados(s) == Linha(usuarios, sess[s].editando_usuario)

\* "Usuário não encontrado!", "Voltar" and "Cancelar": the edit is left
modal_sair(s) ==
    /\ ModalUsuario(s)
    /\ sess' = [sess EXCEPT ![s].editando_usuario = 0]
    /\ Fim(s)
    /\ UNCHANGED <<usuarios, solicitantes, protocolos, logs, seq, agora, passos>>

\* "Salvar Alterações": atualizar_usuario with the values of the form
modal_salvar(s, nome, email, nivel_acesso, ativo) ==
    /\ ModalUsuario(s)
    /\ usuario_dados(s) # {}
    /\ Vai(s, [pc |-> "atualizar_usuario_select", alvo |-> sess[s].editando_usuario,
               args |-> [nome |-> nome, email |-> email, nivel_acesso |-> nivel_acesso,
                         ativo |-> ativo, por |-> UserData(s).id, form |-> TRUE],
               antigos |-> {}])
    /\ UNCHANGED <<usuarios, solicitantes, protocolos, logs, seq, agora, sess, passos>>

\* "Desativar Usuário" / "Ativar Usuário": atualizar_usuario with the values
\* the page has just read and the flag inverted
modal_ativar(s) ==
    /\ ModalUsuario(s)
    /\ usuario_dados(s) # {}
    /\ LET d == CHOOSE u \in usuario_dados(s) : TRUE
       IN Vai(s, [pc |-> "atualizar_usuario_select", alvo |-> d.id,
                  args |-> [nome |-> d.nome, email |-> d.email,
                            nivel_acesso |-> d.nivel_acesso, ativo |-> (d.ativo = 0),
                            por |-> UserData(s).id, form |-> FALSE],
                  antigos |-> {}])
    /\ UNCHANGED <<usuarios, solicitantes, protocolos, logs, seq, agora, sess, passos>>

\* atualizar_usuario: SELECT * FROM usuarios WHERE id = ?
atualizar_usuario_select(s) ==
    /\ Em(s, "atualizar_usuario_select")
    /\ Vai(s, [run[s] EXCEPT !.pc = "atualizar_usuario_update",
                             !.antigos = Linha(usuarios, run[s].alvo)])
    /\ UNCHANGED <<usuarios, solicitantes, protocolos, logs, seq, agora, sess, passos>>

\* UPDATE usuarios SET nome, email, nivel_acesso, ativo WHERE id = ?
atualizar_usuario_update(s) ==
    /\ Em(s, "atualizar_usuario_update")
    /\ usuarios' = {IF u.id = run[s].alvo
                    THEN [u EXCEPT !.nome = run[s].args.nome,
                                   !.email = run[s].args.email,
                                   !.nivel_acesso = run[s].args.nivel_acesso,
                                   !.ativo = SqlBool(run[s].args.ativo)]
                    ELSE u : u \in usuarios}
    /\ Vai(s, [run[s] EXCEPT !.pc = "atualizar_usuario_log"])
    /\ UNCHANGED <<solicitantes, protocolos, logs, seq, agora, sess, passos>>

\* the ATUALIZAR entry with the before/after values; dados_antigos[3] raises
\* TypeError when the SELECT found no row, and the run ends there
atualizar_usuario_log(s) ==
    /\ Em(s, "atualizar_usuario_log")
    /\ IF run[s].antigos = {}
       THEN UNCHANGED <<logs, sess>>
       ELSE LET a == CHOOSE u \in run[s].antigos : TRUE
            IN /\ registrar_log(run[s].args.por, "ATUALIZAR", "usuarios", run[s].alvo,
                    [nome |-> [antes |-> JsonStr(a.nome),
                               depois |-> JsonStr(run[s].args.nome)],
                     email |-> [antes |-> JsonStr(a.email),
                                depois |-> JsonStr(run[s].args.email)],
                     nivel_acesso |-> [antes |-> JsonStr(a.nivel_acesso),
                                       depois |-> JsonStr(run[s].args.nivel_acesso)],
                     ativo |-> [antes |-> JsonNum(a.ativo),
                                depois |-> JsonBool(run[s].args.ativo)]], "sucesso")
               /\ sess' = IF run[s].args.form
                          THEN [sess EXCEPT ![s].editando_usuario = 0]
                          ELSE sess
    /\ Fim(s)
    /\ UNCHANGED <<usuarios, solicitantes, protocolos, seq, agora, passos>>

\* "Alterar Senha": the new password has at least 6 characters
modal_senha(s, nova_senha) ==
    /\ ModalUsuario(s)
    /\ usuario_dados(s) # {}
    /\ Len(nova_senha) >= 6
    /\ Vai(s, [pc |-> "alterar_senha_update", alvo |-> sess[s].editando_usuario,
               args |-> [senha |-> nova_senha, por |-> UserData(s).id],
               antigos |-> {}])
    /\ UNCHANGED <<usuarios, solicitantes, protocolos, logs, seq, agora, sess, passos>>

\* alterar_senha: UPDATE usuarios SET senha = ? WHERE id = ?
alterar_senha_update(s) ==
    /\ Em(s, "alterar_senha_update")
    /\ usuarios' = {IF u.id = run[s].alvo
                    THEN [u EXCEPT !.senha = hash_senha(run[s].args.senha)]
                    ELSE u : u \in usuarios}
    /\ Vai(s, [run[s] EXCEPT !.pc = "alterar_senha_log"])
    /\ UNCHANGED <<solicitantes, protocolos, logs, seq, agora, sess, passos>>

\* the ALTERAR_SENHA entry as it would be if it carried the new password
alterar_senha_log_com_senha(s) ==
    /\ Em(s, "alterar_senha_log")
    /\ registrar_log(run[s].args.por, "ALTERAR_SENHA", "usuarios", run[s].alvo,
            [texto |-> "Senha alterada para usuário ID",
             id |-> NumText(run[s].alvo),
             senha |-> run[s].args.senha], "sucesso")
    /\ Fim(s)
    /\ UNCHANGED <<usuarios, solicitantes, protocolos, seq, agora, sess, passos>>

\* the ALTERAR_SENHA entry
alterar_senha_log(s) ==
    /\ Em(s, "alterar_senha_log")
    /\ registrar_log(run[s].args.por, "ALTERAR_SENHA", "usuarios", run[s].alvo,
            [texto |-> "Senha alterada para usuário ID",
             id |-> NumText(run[s].alvo)], "sucesso")
    /\ Fim(s)
    /\ UNCHANGED <<usuarios, solicitantes, protocolos, seq, agora, sess, passos>>

\* the deletion as it would be offered without the comparison of ids
pode_excluir_usuario_sempre(s) == TRUE

\* "if id_usuario != st.session_state.user_data[0]": the deletion is offered
\* for every user but the session's own
pode_excluir_usuario(s) == sess[s].editando_usuario # UserData(s).id

\* "Excluir Usuário" (not offered for the session's own user) asks for the
\* confirmation; "Cancelar" withdraws it
modal_excluir(s, confirmando) ==
    /\ ModalUsuario(s)
    /\ usuario_dados(s) # {}
    /\ pode_excluir_usuario(s)
    /\ sess[s].confirmando_exclusao # confirmando
    /\ sess' = [sess EXCEPT ![s].confirmando_exclusao = confirmando]
    /\ Fim(s)
    /\ UNCHANGED <<usuarios, solicitantes, protocolos, logs, seq, agora, passos>>

\* "CONFIRMAR EXCLUSÃO"
modal_confirmar(s) ==
    /\ ModalUsuario(s)
    /\ usuario_dados(s) # {}
    /\ pode_excluir_usuario(s)
    /\ sess[s].confirmando_exclusao
    /\ Vai(s, [pc |-> "deletar_usuario_select", alvo |-> sess[s].editando_usuario,
               args |-> [por |-> UserData(s).id], antigos |-> {}])
    /\ UNCHANGED <<usuarios, solicitantes, protocolos, logs, seq, agora, sess, passos>>

\* deletar_usuario: SELECT usuario, nome FROM usuarios WHERE id = ?
deletar_usuario_select(s) ==
    /\ Em(s, "deletar_usuario_select")
    /\ Vai(s, [run[s] EXCEPT !.pc = "deletar_usuario_delete",
                             !.antigos = Linha(usuarios, run[s].alvo)])
    /\ UNCHANGED <<usuarios, solicitantes, protocolos, logs, seq, agora, sess, passos>>

\* the DELETE as it would be if it took the user's log entries along
deletar_usuario_delete_com_logs(s) ==
    /\ Em(s, "deletar_usuario_delete")
    /\ usuarios' = {u \in usuarios : u.id # run[s].alvo}
    /\ logs' = SelectSeq(logs, LAMBDA e : e.usuario_id # run[s].alvo)
    /\ Vai(s, [run[s] EXCEPT !.pc = "deletar_usuario_log"])
    /\ UNCHANGED <<solicitantes, protocolos, seq, agora, sess, passos>>

\* DELETE FROM usuarios WHERE id = ?
deletar_usuario_delete(s) ==
    /\ Em(s, "deletar_usuario_delete")
    /\ usuarios' = {u \in usuarios : u.id # run[s].alvo}
    /\ Vai(s, [run[s] EXCEPT !.pc = "deletar_usuario_log"])
    /\ UNCHANGED <<solicitantes, protocolos, logs, seq, agora, sess, passos>>

\* the DELETAR entry with the deleted login and name; dados_usuario[0] raises
\* TypeError when the SELECT found no row
deletar_usuario_log(s) ==
    /\ Em(s, "deletar_usuario_log")
    /\ IF run[s].antigos = {}
       THEN UNCHANGED <<logs, sess>>
       ELSE LET a == CHOOSE u \in run[s].antigos : TRUE
            IN /\ registrar_log(run[s].args.por, "DELETAR", "usuarios", run[s].alvo,
                    [usuario_deletado |-> JsonStr(a.usuario),
                     nome_deletado |-> JsonStr(a.nome)], "sucesso")
               /\ sess' = [sess EXCEPT ![s].editando_usuario = 0,
                                       ![s].confirmando_exclusao = FALSE]
    /\ Fim(s)
    /\ UNCHANGED <<usuarios, solicitantes, protocolos, seq, agora, passos>>

----------------------------------------------------------------------------
(* SolicitantesCRUD and gerenciar_solicitantes *)

\* SolicitantesCRUD.listar
solicitantes_listar == solicitantes

\* SolicitantesCRUD.buscar_por_id
solicitantes_buscar_por_id(id) == Linha(solicitantes, id)

\* the pages behind the login: main() routes to them for any logged-in user
Pagina(s) == Em(s, "page") /\ Autenticado(s)

\* form "novo_solicitante" (nome is required): criar runs its INSERT
solicitantes_criar_insert(s, nome, email, telefone, departamento) ==
    /\ Pagina(s)
    /\ sess[s].editando_solicitante = 0
    /\ nome # ""
    /\ solicitantes' = solicitantes \cup
            {[id |-> seq.solicitantes + 1, nome |-> nome, email |-> email,
              telefone |-> telefone, departamento |-> departamento,
              data_cadastro |-> agora]}
    /\ seq' = [seq EXCEPT !.solicitantes = @ + 1]
    /\ Vai(s, [pc |-> "solicitantes_criar_log", alvo |-> seq.solicitantes + 1,
               args |-> [nome |-> nome, email |-> email, telefone |-> telefone,
                         departamento |-> departamento, por |-> UserData(s).id],
               antigos |-> {}])
    /\ UNCHANGED <<usuarios, protocolos, logs, agora, sess, passos>>

\* the CRIAR entry
solicitantes_criar_log(s) ==
    /\ Em(s, "solicitantes_criar_log")
    /\ registrar_log(run[s].args.por, "CRIAR", "solicitantes", run[s].alvo,
            [nome |-> JsonStr(run[s].args.nome),
             email |-> JsonStr(run[s].args.email),
             telefone |-> JsonStr(run[s].args.telefone),
             departamento |-> JsonStr(run[s].args.departamento)], "sucesso")
    /\ Fim(s)
    /\ UNCHANGED <<usuarios, solicitantes, protocolos, seq, agora, sess, passos>>

\* "Editar" of a listed requester
solicitantes_editar(s, id) ==
    /\ Pagina(s)
    /\ sess[s].editando_solicitante = 0
    /\ id \in {r.id : r \in solicitantes_listar}
    /\ sess' = [sess EXCEPT ![s].editando_solicitante = id]
    /\ Fim(s)
    /\ UNCHANGED <<usuarios, solicitantes, protocolos, logs, seq, agora, passos>>

\* editar_solicitante: "Voltar", "Voltar à lista" (not found) and "Cancelar"
editar_solicitante_sair(s) ==
    /\ Pagina(s)
    /\ sess[s].editando_solicitante # 0
    /\ sess' = [sess EXCEPT ![s].editando_solicitante = 0]
    /\ Fim(s)
    /\ UNCHANGED <<usuarios, solicitantes, protocolos, logs, seq, agora, passos>>

\* x or '': how the page reads a stored text for the comparison
OuVazio(x) == IF x = NULO THEN "" ELSE x
\* x if x else None: how the page passes a text of the form to atualizar
OuNulo(x) == IF x = "" THEN NULO ELSE x

\* editar_solicitante: "Salvar" with a name and at least one changed field
editar_solicitante_salvar(s, nome, email, telefone, departamento) ==
    /\ Pagina(s)
    /\ sess[s].editando_solicitante # 0
    /\ nome # ""
    /\ \E d \in solicitantes_buscar_por_id(sess[s].editando_solicitante) :
         /\ <<d.nome, OuVazio(d.email), OuVazio(d.telefone), OuVazio(d.departamento)>>
               # <<nome, email, telefone, departamento>>
         /\ Vai(s, [pc |-> "solicitantes_atualizar_select", alvo |-> d.id,
                    args |-> [nome |-> nome, email |-> OuNulo(email),
                              telefone |-> OuNulo(telefone),
                              departamento |-> OuNulo(departamento),
                              por |-> UserData(s).id],
                    antigos |-> {}])
    /\ UNCHANGED <<usuarios, solicitantes, protocolos, logs, seq, agora, sess, passos>>

\* atualizar: SELECT * FROM solicitantes WHERE id = ?
solicitantes_atualizar_select(s) ==
    /\ Em(s, "solicitantes_atualizar_select")
    /\ Vai(s, [run[s] EXCEPT !.pc = "solicitantes_atualizar_update",
                             !.antigos = Linha(solicitantes, run[s].alvo)])
    /\ UNCHANGED <<usuarios, solicitantes, protocolos, logs, seq, agora, sess, passos>>

\* UPDATE solicitantes SET nome, email, telefone, departamento WHERE id = ?
solicitantes_atualizar_update(s) ==
    /\ Em(s, "solicitantes_atualizar_update")
    /\ solicitantes' = {IF r.id = run[s].alvo
                        THEN [r EXCEPT !.nome = run[s].args.nome,
                                       !.email = run[s].args.email,
                                       !.telefone = run[s].args.telefone,
                                       !.departamento = run[s].args.departamento]
                        ELSE r : r \in solicitantes}
    /\ Vai(s, [run[s] EXCEPT !.pc = "solicitantes_atualizar_log"])
    /\ UNCHANGED <<usuarios, protocolos, logs, seq, agora, sess, passos>>

\* the ATUALIZAR entry; dados_antigos[1] raises TypeError when the SELECT
\* found no row (the page catches it and shows an error)
solicitantes_atualizar_log(s) ==
    /\ Em(s, "solicitantes_atualizar_log")
    /\ IF run[s].antigos = {}
       THEN UNCHANGED <<logs, sess>>
       ELSE LET a == CHOOSE r \in run[s].antigos : TRUE
            IN /\ registrar_log(run[s].args.por, "ATUALIZAR", "solicitantes", run[s].alvo,
                    [nome |-> [antes |-> JsonStr(a.nome),
                               depois |-> JsonStr(run[s].args.nome)],
                     email |-> [antes |-> JsonStr(a.email),
                                depois |-> JsonStr(run[s].args.email)],
                     telefone |-> [antes |-> JsonStr(a.telefone),
                                   depois |-> JsonStr(run[s].args.telefone)],
                     departamento |-> [antes |-> JsonStr(a.departamento),
                                       depois |-> JsonStr(run[s].args.departamento)]],
                    "sucesso")
               /\ sess' = [sess EXCEPT ![s].editando_solicitante = 0]
    /\ Fim(s)
    /\ UNCHANGED <<usuarios, solicitantes, protocolos, seq, agora, passos>>

\* "Excluir" of a listed requester: the first click asks for a second one,
\* the second one calls deletar
solicitantes_excluir(s, id) ==
    /\ Pagina(s)
    /\ sess[s].editando_solicitante = 0
    /\ id \in {r.id : r \in solicitantes_listar}
    /\ IF id \notin sess[s].confirm_del
       THEN /\ sess' = [sess EXCEPT ![s].confirm_del = @ \cup {id}]
            /\ Fim(s)
       ELSE /\ Vai(s, [pc |-> "solicitantes_deletar_select", alvo |-> id,
                       args |-> [por |-> UserData(s).id], antigos |-> {}])
            /\ UNCHANGED sess
    /\ UNCHANGED <<usuarios, solicitantes, protocolos, logs, seq, agora, passos>>

\* deletar: SELECT nome FROM solicitantes WHERE id = ?; fetchone()[0] raises
\* TypeError when there is no row
solicitantes_deletar_select(s) ==
    /\ Em(s, "solicitantes_deletar_select")
    /\ IF Linha(solicitantes, run[s].alvo) = {}
       THEN Fim(s)
       ELSE Vai(s, [run[s] EXCEPT !.pc = "solicitantes_deletar_delete",
                                  !.antigos = Linha(solicitantes, run[s].alvo)])
    /\ UNCHANGED <<usuarios, solicitantes, protocolos, logs, seq, agora, sess, passos>>

\* the DELETE as it would be with ON DELETE CASCADE on
\* protocolos.solicitante_id
solicitantes_deletar_delete_cascade(s) ==
    /\ Em(s, "solicitantes_deletar_delete")
    /\ solicitantes' = {r \in solicitantes : r.id # run[s].alvo}
    /\ protocolos' = {p \in protocolos : p.solicitante_id # run[s].alvo}
    /\ Vai(s, [run[s] EXCEPT !.pc = "solicitantes_deletar_log"])
    /\ UNCHANGED <<usuarios, logs, seq, agora, sess, passos>>

\* DELETE FROM solicitantes WHERE id = ?
solicitantes_deletar_delete(s) ==
    /\ Em(s, "solicitantes_deletar_delete")
    /\ solicitantes' = {r \in solicitantes : r.id # run[s].alvo}
    /\ Vai(s, [run[s] EXCEPT !.pc = "solicitantes_deletar_log"])
    /\ UNCHANGED <<usuarios, protocolos, logs, seq, agora, sess, passos>>

\* the DELETAR entry; the page then forgets the confirmation
solicitantes_deletar_log(s) ==
    /\ Em(s, "solicitantes_deletar_log")
    /\ LET a == CHOOSE r \in run[s].antigos : TRUE
       IN registrar_log(run[s].args.por, "DELETAR", "solicitantes", run[s].alvo,
                [texto |-> "Solicitante deletado", nome |-> a.nome], "sucesso")
    /\ sess' = [sess EXCEPT ![s].confirm_del = @ \ {run[s].alvo}]
    /\ Fim(s)
    /\ UNCHANGED <<usuarios, solicitantes, protocolos, seq, agora, passos>>

----------------------------------------------------------------------------
(* ProtocolosCRUD and gerenciar_protocolos *)

\* ProtocolosCRUD.listar: every row for nivel_acesso "admin" (the default,
\* used by every caller), the user's own rows otherwise
protocolos_listar(usuario_id, nivel_acesso) ==
    IF nivel_acesso = "admin" THEN protocolos
    ELSE {p \in protocolos : p.criado_por = usuario_id}

\* the two LEFT JOINs of listar: the row p with s.nome as solicitante_nome
\* and u.nome as criado_por_nome, each a set that is empty (NULL) when no
\* row has the id
LeftJoin(p) ==
    [c \in DOMAIN p \cup {"solicitante_nome", "criado_por_nome"} |->
        IF c = "solicitante_nome"
        THEN {r.nome : r \in {x \in solicitantes : x.id = p.solicitante_id}}
        ELSE IF c = "criado_por_nome"
        THEN {u.nome : u \in {x \in usuarios : x.id = p.criado_por}}
        ELSE p[c]]

\* the DataFrame listar returns: its rows with the joined names
listar(usuario_id, nivel_acesso) ==
    {LeftJoin(p) : p \in protocolos_listar(usuario_id, nivel_acesso)}

\* ProtocolosCRUD.buscar_por_id
protocolos_buscar_por_id(id) == Linha(protocolos, id)

\* is_admin and current_user_id of gerenciar_protocolos
is_admin(s) == UserData(s).nivel_acesso = "admin"
current_user_id(s) == UserData(s).id

\* pode_editar as it would be without the ownership check
pode_editar_todos(s, p) == TRUE

\* pode_editar: the session is an admin's or the protocol's creator's
pode_editar(s, p) == is_admin(s) \/ p.criado_por = current_user_id(s)

\* form "novo_protocolo" (titulo, tipo and a listed requester are required)
novo_protocolo(s, titulo, tipo_documento, solicitante_id) ==
    /\ Pagina(s)
    /\ titulo # ""
    /\ solicitante_id \in {r.id : r \in solicitantes_listar}
    /\ Vai(s, [pc |-> "protocolos_criar_gerar", alvo |-> 0,
               args |-> [titulo |-> titulo, descricao |-> "",
                         tipo_documento |-> tipo_documento,
                         data_protocolo |-> agora, data_prazo |-> agora,
                         solicitante_id |-> solicitante_id, observacoes |-> "",
                         criado_por |-> UserData(s).id],
               antigos |-> {}])
    /\ UNCHANGED <<usuarios, solicitantes, protocolos, logs, seq, agora, sess, passos>>

\* criar: numero_protocolo = self.db.gerar_numero_protocolo()
protocolos_criar_gerar(s) ==
    /\ Em(s, "protocolos_criar_gerar")
    /\ Vai(s, [run[s] EXCEPT !.pc = "protocolos_criar_insert",
                             !.antigos = {gerar_numero_protocolo}])
    /\ UNCHANGED <<usuarios, solicitantes, protocolos, logs, seq, agora, sess, passos>>

\* the row criar inserts: status and data_criacao take the column defaults
NovoProtocolo(id, numero, a, t) ==
    [id |-> id, numero_protocolo |-> numero, titulo |-> a.titulo,
     descricao |-> a.descricao, tipo_documento |-> a.tipo_documento,
     status |-> "Pendente", data_protocolo |-> a.data_protocolo,
     data_prazo |-> a.data_prazo, solicitante_id |-> a.solicitante_id,
     observacoes |-> a.observacoes, criado_por |-> a.criado_por,
     data_criacao |-> t]

\* INSERT INTO protocolos: committed, or the UNIQUE constraint on
\* numero_protocolo raises IntegrityError, which nothing catches
protocolos_criar_insert(s) ==
    /\ Em(s, "protocolos_criar_insert")
    /\ LET numero == CHOOSE n \in run[s].antigos : TRUE
       IN IF NumeroLivre(numero)
          THEN /\ protocolos' = protocolos \cup
                    {NovoProtocolo(seq.protocolos + 1, numero, run[s].args, agora)}
               /\ seq' = [seq EXCEPT !.protocolos = @ + 1]
               /\ Vai(s, [run[s] EXCEPT !.pc = "protocolos_criar_log",
                                        !.alvo = seq.protocolos + 1])
          ELSE /\ Fim(s)
               /\ UNCHANGED <<protocolos, seq>>
    /\ UNCHANGED <<usuarios, solicitantes, logs, agora, sess, passos>>

\* the CRIAR entry; criar returns numero_protocolo
protocolos_criar_log(s) ==
    /\ Em(s, "protocolos_criar_log")
    /\ LET numero == CHOOSE n \in run[s].antigos : TRUE
       IN registrar_log(run[s].args.criado_por, "CRIAR", "protocolos", run[s].alvo,
                [numero_protocolo |-> numero,
                 titulo |-> JsonStr(run[s].args.titulo),
                 tipo_documento |-> JsonStr(run[s].args.tipo_documento),
                 solicitante_id |-> JsonNum(run[s].args.solicitante_id)], "sucesso")
    /\ Fim(s)
    /\ UNCHANGED <<usuarios, solicitantes, protocolos, seq, agora, sess, passos>>

\* the list is shown while no protocol is being edited
ListaProtocolos(s) == Pagina(s) /\ sess[s].editando_protocolo = 0

\* "Editar" of a listed protocol: enabled when pode_editar
protocolos_editar(s, id) ==
    /\ ListaProtocolos(s)
    /\ \E p \in protocolos_listar(0, "admin") :
         /\ p.id = id
         /\ pode_editar(s, p)
    /\ sess' = [sess EXCEPT ![s].editando_protocolo = id]
    /\ Fim(s)
    /\ UNCHANGED <<usuarios, solicitantes, protocolos, logs, seq, agora, passos>>

\* the edit page: the protocol is gone or may not be edited by this session
\* (the edit is left), or the form is shown and "Cancelar" is pressed
editar_protocolo_sair(s) ==
    /\ Pagina(s)
    /\ sess[s].editando_protocolo # 0
    /\ sess' = [sess EXCEPT ![s].editando_protocolo = 0]
    /\ Fim(s)
    /\ UNCHANGED <<usuarios, solicitantes, protocolos, logs, seq, agora, passos>>

\* the requester the edit form offers: a listed one, or the stored one when
\* no requester is registered
SolicitanteEdit(p) ==
    IF solicitantes_listar # {} THEN {r.id : r \in solicitantes_listar}
    ELSE {p.solicitante_id}

\* the edit page: protocolo_data is found, pode_editar holds, and "Salvar
\* Alterações" is pressed with the required fields
editar_protocolo_salvar(s, titulo, tipo_documento, status, solicitante_id) ==
    /\ Pagina(s)
    /\ sess[s].editando_protocolo # 0
    /\ titulo # ""
    /\ \E p \in protocolos_buscar_por_id(sess[s].editando_protocolo) :
         /\ pode_editar(s, p)
         /\ solicitante_id \in SolicitanteEdit(p)
         /\ solicitante_id # 0
         /\ Vai(s, [pc |-> "protocolos_atualizar_select", alvo |-> p.id,
                    args |-> [titulo |-> titulo, descricao |-> OuVazio(p.descricao),
                              tipo_documento |-> tipo_documento, status |-> status,
                              data_protocolo |-> p.data_protocolo,
                              data_prazo |-> p.data_prazo,
                              solicitante_id |-> solicitante_id,
                              observacoes |-> OuVazio(p.observacoes),
                              por |-> current_user_id(s)],
                    antigos |-> {}])
    /\ UNCHANGED <<usuarios, solicitantes, protocolos, logs, seq, agora, sess, passos>>

\* atualizar: SELECT * FROM protocolos WHERE id = ?
protocolos_atualizar_select(s) ==
    /\ Em(s, "protocolos_atualizar_select")
    /\ Vai(s, [run[s] EXCEPT !.pc = "protocolos_atualizar_update",
                             !.antigos = Linha(protocolos, run[s].alvo)])
    /\ UNCHANGED <<usuarios, solicitantes, protocolos, logs, seq, agora, sess, passos>>

\* the UPDATE as it would be if it also took over the row
ProtocoloAtualizado_com_dono(p, a) ==
    [p EXCEPT !.titulo = a.titulo, !.descricao = a.descricao,
              !.tipo_documento = a.tipo_documento, !.status = a.status,
              !.data_protocolo = a.data_protocolo, !.data_prazo = a.data_prazo,
              !.solicitante_id = a.solicitante_id, !.observacoes = a.observacoes,
              !.criado_por = a.por]

\* the row after UPDATE protocolos SET titulo, descricao, tipo_documento,
\* status, data_protocolo, data_prazo, solicitante_id, observacoes
ProtocoloAtualizado(p, a) ==
    [p EXCEPT !.titulo = a.titulo, !.descricao = a.descricao,
              !.tipo_documento = a.tipo_documento, !.status = a.status,
              !.data_protocolo = a.data_protocolo, !.data_prazo = a.data_prazo,
              !.solicitante_id = a.solicitante_id, !.observacoes = a.observacoes]

\* UPDATE protocolos SET ... WHERE id = ?
protocolos_atualizar_update(s) ==
    /\ Em(s, "protocolos_atualizar_update")
    /\ protocolos' = {IF p.id = run[s].alvo THEN ProtocoloAtualizado(p, run[s].args)
                      ELSE p : p \in protocolos}
    /\ Vai(s, [run[s] EXCEPT !.pc = "protocolos_atualizar_log"])
    /\ UNCHANGED <<usuarios, solicitantes, logs, seq, agora, sess, passos>>

\* the ATUALIZAR entry; dados_antigos[1] raises TypeError when the SELECT
\* found no row.  On True the page leaves the edit.
protocolos_atualizar_log(s) ==
    /\ Em(s, "protocolos_atualizar_log")
    /\ IF run[s].antigos = {}
       THEN UNCHANGED <<logs, sess>>
       ELSE LET a == CHOOSE p \in run[s].antigos : TRUE
            IN /\ registrar_log(run[s].args.por, "ATUALIZAR", "protocolos", run[s].alvo,
                    [numero_protocolo |-> a.numero_protocolo,
                     titulo |-> [antes |-> JsonStr(a.titulo),
                                 depois |-> JsonStr(run[s].args.titulo)],
                     status |-> [antes |-> JsonStr(a.status),
                                 depois |-> JsonStr(run[s].args.status)],
                     tipo_documento |-> [antes |-> JsonStr(a.tipo_documento),
                                         depois |-> JsonStr(run[s].args.tipo_documento)]],
                    "sucesso")
               /\ sess' = [sess EXCEPT ![s].editando_protocolo = 0]
    /\ Fim(s)
    /\ UNCHANGED <<usuarios, solicitantes, protocolos, seq, agora, passos>>

\* "Excluir" of a listed protocol: rendered for an admin session only
protocolos_excluir(s, id) ==
    /\ ListaProtocolos(s)
    /\ id \in {p.id : p \in protocolos_listar(0, "admin")}
    /\ is_admin(s)
    /\ Vai(s, [pc |-> "protocolos_deletar_select", alvo |-> id,
               args |-> [por |-> current_user_id(s)], antigos |-> {}])
    /\ UNCHANGED <<usuarios, solicitantes, protocolos, logs, seq, agora, sess, passos>>

\* deletar: SELECT numero_protocolo, titulo FROM protocolos WHERE id = ?
protocolos_deletar_select(s) ==
    /\ Em(s, "protocolos_deletar_select")
    /\ Vai(s, [run[s] EXCEPT !.pc = "protocolos_deletar_delete",
                             !.antigos = Linha(protocolos, run[s].alvo)])
    /\ UNCHANGED <<usuarios, solicitantes, protocolos, logs, seq, agora, sess, passos>>

\* DELETE FROM protocolos WHERE id = ?
protocolos_deletar_delete(s) ==
    /\ Em(s, "protocolos_deletar_delete")
    /\ protocolos' = {p \in protocolos : p.id # run[s].alvo}
    /\ Vai(s, [run[s] EXCEPT !.pc = "protocolos_deletar_log"])
    /\ UNCHANGED <<usuarios, solicitantes, logs, seq, agora, sess, passos>>

\* the DELETAR entry as it would be if a missing row were tolerated
\* (dados_protocolo[0] if dados_protocolo else None)
protocolos_deletar_log_sem_erro(s) ==
    /\ Em(s, "protocolos_deletar_log")
    /\ registrar_log(run[s].args.por, "DELETAR", "protocolos", run[s].alvo,
            [numero_protocolo |-> {a.numero_protocolo : a \in run[s].antigos},
             titulo |-> {JsonStr(a.titulo) : a \in run[s].antigos}], "sucesso")
    /\ Fim(s)
    /\ UNCHANGED <<usuarios, solicitantes, protocolos, seq, agora, sess, passos>>

\* the DELETAR entry; dados_protocolo[0] raises TypeError when the SELECT
\* found no row
protocolos_deletar_log(s) ==
    /\ Em(s, "protocolos_deletar_log")
    /\ IF run[s].antigos = {}
       THEN UNCHANGED logs
       ELSE LET a == CHOOSE p \in run[s].antigos : TRUE
            IN registrar_log(run[s].args.por, "DELETAR", "protocolos", run[s].alvo,
                    [numero_protocolo |-> a.numero_protocolo,
                     titulo |-> JsonStr(a.titulo)], "sucesso")
    /\ Fim(s)
    /\ UNCHANGED <<usuarios, solicitantes, protocolos, seq, agora, sess, passos>>

----------------------------------------------------------------------------
(* The program *)

\* after construction: DatabaseManager() has created the tables and the
\* default admin; no browser session is open
InitConstruido ==
    /\ usuarios = {AdminPadrao(1, 1)}
    /\ solicitantes = {}
    /\ protocolos = {}
    /\ logs = <<>>
    /\ seq = [usuarios |-> 1, solicitantes |-> 0, protocolos |-> 0]
    /\ agora = 1
    /\ sess = [s \in Sessoes |-> SessaoVazia]
    /\ run = [s \in Sessoes |-> Ocioso]
    /\ passos = 0

\* The registry in use.  From InitConstruido: the admin logs in (session 1),
\* creates the user "ana" and the requester "S1"; ana logs in (session 2),
\* creates protocol 1 and logs out; the admin creates protocol 2.
UsuarioAna ==
    [id |-> 2, usuario |-> "ana", senha |-> hash_senha("segredo"), nome |-> "Ana",
     email |-> "", nivel_acesso |-> "usuario", ativo |-> 1, data_cadastro |-> 1,
     ultimo_login |-> 1]

ArgsProtocoloEmUso(por) ==
    [titulo |-> "T1", descricao |-> "", tipo_documento |-> "Ofício",
     data_protocolo |-> 1, data_prazo |-> 1, solicitante_id |-> 1,
     observacoes |-> "", criado_por |-> por]

DetalhesCriarProtocolo(n) ==
    [numero_protocolo |-> NumeroProtocolo(Ano(1), n), titulo |-> JsonStr("T1"),
     tipo_documento |-> JsonStr("Ofício"), solicitante_id |-> JsonNum(1)]

LogsEmUso ==
    << LogEntry(1, 1, "LOGIN", "usuarios", 1,
           [texto |-> "Login realizado com sucesso para usuário",
            usuario |-> "admin"], 1, "sucesso"),
       LogEntry(2, 1, "CRIAR", "usuarios", 2,
           [usuario_criado |-> JsonStr("ana"), nome |-> JsonStr("Ana"),
            email |-> JsonStr(""), nivel_acesso |-> JsonStr("usuario")], 1, "sucesso"),
       LogEntry(3, 1, "CRIAR", "solicitantes", 1,
           [nome |-> JsonStr("S1"), email |-> JsonStr(""), telefone |-> JsonStr(""),
            departamento |-> JsonStr("RH")], 1, "sucesso"),
       LogEntry(4, 2, "LOGIN", "usuarios", 2,
           [texto |-> "Login realizado com sucesso para usuário",
            usuario |-> "ana"], 1, "sucesso"),
       LogEntry(5, 2, "CRIAR", "protocolos", 1, DetalhesCriarProtocolo(1), 1, "sucesso"),
       LogEntry(6, 2, "LOGOUT", "usuarios", 2,
           [texto |-> "Logout realizado para usuário", usuario |-> "ana"],
           1, "sucesso"),
       LogEntry(7, 1, "CRIAR", "protocolos", 2, DetalhesCriarProtocolo(2), 1, "sucesso") >>

EstadoEmUso ==
    /\ usuarios = {[AdminPadrao(1, 1) EXCEPT !.ultimo_login = 1], UsuarioAna}
    /\ solicitantes = {[id |-> 1, nome |-> "S1", email |-> "", telefone |-> "",
                        departamento |-> "RH", data_cadastro |-> 1]}
    /\ protocolos = {NovoProtocolo(1, NumeroProtocolo(Ano(1), 1), ArgsProtocoloEmUso(2), 1),
                     NovoProtocolo(2, NumeroProtocolo(Ano(1), 2), ArgsProtocoloEmUso(1), 1)}
    /\ logs = LogsEmUso
    /\ seq = [usuarios |-> 2, solicitantes |-> 1, protocolos |-> 2]
    /\ agora = 1
    /\ sess = [s \in Sessoes |->
                 IF s = 1
                 THEN [SessaoVazia EXCEPT !.user_data =
                          {[id |-> 1, usuario |-> "admin", nome |-> "Administrador",
                            nivel_acesso |-> "admin", ativo |-> 1]}]
                 ELSE SessaoVazia]
    /\ run = [s \in Sessoes |-> Ocioso]

InitEmUso == EstadoEmUso /\ passos = 0

\* The registry in use with two administrators.  From InitConstruido: the
\* admin logs in (session 1) and creates the user "ana" as an admin, the
\* requester "S1" and protocol 1; session 2 is logged out.
LogsAdmins ==
    << LogsEmUso[1],
       LogEntry(2, 1, "CRIAR", "usuarios", 2,
           [usuario_criado |-> JsonStr("ana"), nome |-> JsonStr("Ana"),
            email |-> JsonStr(""), nivel_acesso |-> JsonStr("admin")], 1, "sucesso"),
       LogsEmUso[3],
       LogEntry(4, 1, "CRIAR", "protocolos", 1, DetalhesCriarProtocolo(1), 1, "sucesso") >>

EstadoAdmins ==
    /\ usuarios = {[AdminPadrao(1, 1) EXCEPT !.ultimo_login = 1],
                   [UsuarioAna EXCEPT !.nivel_acesso = "admin", !.ultimo_login = 0]}
    /\ solicitantes = {[id |-> 1, nome |-> "S1", email |-> "", telefone |-> "",
                        departamento |-> "RH", data_cadastro |-> 1]}
    /\ protocolos = {NovoProtocolo(1, NumeroProtocolo(Ano(1), 1), ArgsProtocoloEmUso(1), 1)}
    /\ logs = LogsAdmins
    /\ seq = [usuarios |-> 2, solicitantes |-> 1, protocolos |-> 1]
    /\ agora = 1
    /\ sess = [s \in Sessoes |->
                 IF s = 1
                 THEN [SessaoVazia EXCEPT !.user_data =
                          {[id |-> 1, usuario |-> "admin", nome |-> "Administrador",
                            nivel_acesso |-> "admin", ativo |-> 1]}]
                 ELSE SessaoVazia]
    /\ run = [s \in Sessoes |-> Ocioso]

InitAdmins == EstadoAdmins /\ passos = 0

\* The registry in use with a concluded protocol.  From EstadoEmUso: the
\* admin opens protocol 2 in the edit form and saves it with the status
\* "Concluído".
LogsConcluido ==
    Append(LogsEmUso,
           LogEntry(8, 1, "ATUALIZAR", "protocolos", 2,
               [numero_protocolo |-> NumeroProtocolo(Ano(1), 2),
                titulo |-> [antes |-> JsonStr("T1"), depois |-> JsonStr("T1")],
                status |-> [antes |-> JsonStr("Pendente"),
                            depois |-> JsonStr("Concluído")],
                tipo_documento |-> [antes |-> JsonStr("Ofício"),
                                    depois |-> JsonStr("Ofício")]],
               1, "sucesso"))

EstadoConcluido ==
    /\ usuarios = {[AdminPadrao(1, 1) EXCEPT !.ultimo_login = 1], UsuarioAna}
    /\ solicitantes = {[id |-> 1, nome |-> "S1", email |-> "", telefone |-> "",
                        departamento |-> "RH", data_cadastro |-> 1]}
    /\ protocolos = {NovoProtocolo(1, NumeroProtocolo(Ano(1), 1), ArgsProtocoloEmUso(2), 1),
                     [NovoProtocolo(2, NumeroProtocolo(Ano(1), 2), ArgsProtocoloEmUso(1), 1)
                         EXCEPT !.status = "Concluído"]}
    /\ logs = LogsConcluido
    /\ seq = [usuarios |-> 2, solicitantes |-> 1, protocolos |-> 2]
    /\ agora = 1
    /\ sess = [s \in Sessoes |->
                 IF s = 1
                 THEN [SessaoVazia EXCEPT !.user_data =
                          {[id |-> 1, usuario |-> "admin", nome |-> "Administrador",
                            nivel_acesso |-> "admin", ativo |-> 1]}]
                 ELSE SessaoVazia]
    /\ run = [s \in Sessoes |-> Ocioso]

InitConcluido == EstadoConcluido /\ passos = 0

\* before construction: the database file does not exist yet; the first
\* init_database creates the empty tables and seeds the default admin
InitNovo ==
    /\ usuarios = {}
    /\ solicitantes = {}
    /\ protocolos = {}
    /\ logs = <<>>
    /\ seq = [usuarios |-> 0, solicitantes |-> 0, protocolos |-> 0]
    /\ agora = 1
    /\ sess = [s \in Sessoes |-> SessaoVazia]
    /\ run = [s \in Sessoes |-> Ocioso]
    /\ passos = 0

\* The registry in use with protocol 1 open in two edit forms.  From
\* EstadoEmUso: ana logs in again (session 2) and presses "Editar" on her
\* protocol 1; the admin presses "Editar" on protocol 1 too.
EstadoEditando ==
    /\ usuarios = {[AdminPadrao(1, 1) EXCEPT !.ultimo_login = 1], UsuarioAna}
    /\ solicitantes = {[id |-> 1, nome |-> "S1", email |-> "", telefone |-> "",
                        departamento |-> "RH", data_cadastro |-> 1]}
    /\ protocolos = {NovoProtocolo(1, NumeroProtocolo(Ano(1), 1), ArgsProtocoloEmUso(2), 1),
                     NovoProtocolo(2, NumeroProtocolo(Ano(1), 2), ArgsProtocoloEmUso(1), 1)}
    /\ logs = Append(LogsEmUso,
                     LogEntry(8, 2, "LOGIN", "usuarios", 2,
                         [texto |-> "Login realizado com sucesso para usuário",
                          usuario |-> "ana"], 1, "sucesso"))
    /\ seq = [usuarios |-> 2, solicitantes |-> 1, protocolos |-> 2]
    /\ agora = 1
    /\ sess = [s \in Sessoes |->
                 IF s = 1
                 THEN [SessaoVazia EXCEPT
                          !.user_data =
                             {[id |-> 1, usuario |-> "admin", nome |-> "Administrador",
                               nivel_acesso |-> "admin", ativo |-> 1]},
                          !.editando_protocolo = 1]
                 ELSE [SessaoVazia EXCEPT
                          !.user_data =
                             {[id |-> 2, usuario |-> "ana", nome |-> "Ana",
                               nivel_acesso |-> "usuario", ativo |-> 1]},
                          !.editando_protocolo = 1]]
    /\ run = [s \in Sessoes |-> Ocioso]

InitEditando == EstadoEditando /\ passos = 0

\* The registry in use with two open sessions.  From EstadoEmUso: ana logs
\* in again (session 2); the admin presses "Editar" on ana's row in
\* gerenciar_usuarios.
EstadoSessoes ==
    /\ usuarios = {[AdminPadrao(1, 1) EXCEPT !.ultimo_login = 1], UsuarioAna}
    /\ solicitantes = {[id |-> 1, nome |-> "S1", email |-> "", telefone |-> "",
                        departamento |-> "RH", data_cadastro |-> 1]}
    /\ protocolos = {NovoProtocolo(1, NumeroProtocolo(Ano(1), 1), ArgsProtocoloEmUso(2), 1),
                     NovoProtocolo(2, NumeroProtocolo(Ano(1), 2), ArgsProtocoloEmUso(1), 1)}
    /\ logs = Append(LogsEmUso,
                     LogEntry(8, 2, "LOGIN", "usuarios", 2,
                         [texto |-> "Login realizado com sucesso para usuário",
                          usuario |-> "ana"], 1, "sucesso"))
    /\ seq = [usuarios |-> 2, solicitantes |-> 1, protocolos |-> 2]
    /\ agora = 1
    /\ sess = [s \in Sessoes |->
                 IF s = 1
                 THEN [SessaoVazia EXCEPT
                          !.user_data =
                             {[id |-> 1, usuario |-> "admin", nome |-> "Administrador",
                               nivel_acesso |-> "admin", ativo |-> 1]},
                          !.editando_usuario = 2]
                 ELSE [SessaoVazia EXCEPT
                          !.user_data =
                             {[id |-> 2, usuario |-> "ana", nome |-> "Ana",
                               nivel_acesso |-> "usuario", ativo |-> 1]}]]
    /\ run = [s \in Sessoes |-> Ocioso]

InitSessoes == EstadoSessoes /\ passos = 0

\* the exploration starts after construction or with the registry in use
Init == InitConstruido \/ InitEmUso

Passo(s) ==
    \/ init_database(s)
    \/ \E usuario \in Logins, senha \in Senhas : login_select(s, usuario, senha)
    \/ login_update(s)
    \/ login_log(s)
    \/ login_falhou(s)
    \/ logout(s)
    \/ \E usuario \in Logins, senha \in Senhas, nome \in Nomes, email \in Emails,
          nivel \in Niveis : criar_usuario_insert(s, usuario, senha, nome, email, nivel)
    \/ criar_usuario_log(s)
    \/ criar_usuario_erro(s)
    \/ \E id \in 1..seq.usuarios : usuarios_editar(s, id)
    \/ modal_sair(s)
    \/ \E nome \in Nomes, email \in Emails, nivel \in Niveis, ativo \in BOOLEAN :
          modal_salvar(s, nome, email, nivel, ativo)
    \/ modal_ativar(s)
    \/ atualizar_usuario_select(s)
    \/ atualizar_usuario_update(s)
    \/ atualizar_usuario_log(s)
    \/ \E senha \in Senhas : modal_senha(s, senha)
    \/ alterar_senha_update(s)
    \/ alterar_senha_log(s)
    \/ \E c \in BOOLEAN : modal_excluir(s, c)
    \/ modal_confirmar(s)
    \/ deletar_usuario_select(s)
    \/ deletar_usuario_delete(s)
    \/ deletar_usuario_log(s)
    \/ \E nome \in SolNomes, email \in Emails, telefone \in Telefones,
          departamento \in Departamentos :
          solicitantes_criar_insert(s, nome, email, telefone, departamento)
    \/ solicitantes_criar_log(s)
    \/ \E id \in 1..seq.solicitantes : solicitantes_editar(s, id)
    \/ editar_solicitante_sair(s)
    \/ \E nome \in SolNomes, email \in Emails, telefone \in Telefones,
          departamento \in Departamentos :
          editar_solicitante_salvar(s, nome, email, telefone, departamento)
    \/ solicitantes_atualizar_select(s)
    \/ solicitantes_atualizar_update(s)
    \/ solicitantes_atualizar_log(s)
    \/ \E id \in 1..seq.solicitantes : solicitantes_excluir(s, id)
    \/ solicitantes_deletar_select(s)
    \/ solicitantes_deletar_delete(s)
    \/ solicitantes_deletar_log(s)
    \/ \E titulo \in Titulos, tipo \in Tipos, sol \in 1..seq.solicitantes :
          novo_protocolo(s, titulo, tipo, sol)
    \/ protocolos_criar_gerar(s)
    \/ protocolos_criar_insert(s)
    \/ protocolos_criar_log(s)
    \/ \E id \in 1..seq.protocolos : protocolos_editar(s, id)
    \/ editar_protocolo_sair(s)
    \/ \E titulo \in Titulos, tipo \in Tipos, status \in StatusOpcoes,
          sol \in 0..seq.solicitantes :
          editar_protocolo_salvar(s, titulo, tipo, status, sol)
    \/ protocolos_atualizar_select(s)
    \/ protocolos_atualizar_update(s)
    \/ protocolos_atualizar_log(s)
    \/ \E id \in 1..seq.protocolos : protocolos_excluir(s, id)
    \/ protocolos_deletar_select(s)
    \/ protocolos_deletar_delete(s)
    \/ protocolos_deletar_log(s)

\* the sessions' script runs interleave statement by statement
Next == Tick \/ \E s \in Sessoes : Passo(s)

Spec == Init /\ [][Next]_vars

\* One statement of a script run that logs in or out, works in the user
\* modal of gerenciar_usuarios, or opens, leaves or deletes from the protocol
\* list
PassoSessoes(s) ==
    \/ init_database(s)
    \/ \E usuario \in Logins, senha \in Senhas : login_select(s, usuario, senha)
    \/ login_update(s)
    \/ login_log(s)
    \/ login_falhou(s)
    \/ logout(s)
    \/ modal_sair(s)
    \/ \E nome \in Nomes, email \in Emails, nivel \in Niveis, ativo \in BOOLEAN :
          modal_salvar(s, nome, email, nivel, ativo)
    \/ modal_ativar(s)
    \/ atualizar_usuario_select(s)
    \/ atualizar_usuario_update(s)
    \/ atualizar_usuario_log(s)
    \/ \E c \in BOOLEAN : modal_excluir(s, c)
    \/ modal_confirmar(s)
    \/ deletar_usuario_select(s)
    \/ deletar_usuario_delete(s)
    \/ deletar_usuario_log(s)
    \/ \E id \in 1..seq.protocolos : protocolos_editar(s, id)
    \/ editar_protocolo_sair(s)
    \/ \E id \in 1..seq.protocolos : protocolos_excluir(s, id)
    \/ protocolos_deletar_select(s)
    \/ protocolos_deletar_delete(s)
    \/ protocolos_deletar_log(s)

NextSessoes == Tick \/ \E s \in Sessoes : PassoSessoes(s)

\* the user modal and the protocol list with two open sessions
SpecSessoes == (InitEmUso \/ InitSessoes) /\ [][NextSessoes]_vars

\* without concurrency: a script run starts only when no other run is under way
NextSeq ==
    \/ Tick
    \/ \E s \in Sessoes :
          /\ \A o \in Sessoes \ {s} : Em(o, "idle")
          /\ Passo(s)

SpecSeq == Init /\ [][NextSeq]_vars

\* A caller of DatabaseManager.gerar_numero_protocolo other than criar: it
\* calls the method, keeps the number and the time of the call, ...
numero_chamar(s) ==
    /\ Em(s, "page")
    /\ Vai(s, [pc |-> "numero_chamar_de_novo", alvo |-> 0,
               args |-> [primeiro |-> gerar_numero_protocolo, em |-> agora],
               antigos |-> {}])
    /\ UNCHANGED <<usuarios, solicitantes, protocolos, logs, seq, agora, sess, passos>>

\* ... calls it a second time, ...
numero_chamar_de_novo(s) ==
    /\ Em(s, "numero_chamar_de_novo")
    /\ Vai(s, [run[s] EXCEPT !.pc = "numero_devolver",
                             !.antigos = {gerar_numero_protocolo}])
    /\ UNCHANGED <<usuarios, solicitantes, protocolos, logs, seq, agora, sess, passos>>

\* ... and ends
numero_devolver(s) ==
    /\ Em(s, "numero_devolver")
    /\ Fim(s)
    /\ UNCHANGED <<usuarios, solicitantes, protocolos, logs, seq, agora, sess, passos>>

\* without concurrency, with callers of gerar_numero_protocolo besides criar
NextNumero ==
    \/ NextSeq
    \/ \E s \in Sessoes : (\A o \in Sessoes \ {s} : Em(o, "idle")) /\ numero_chamar(s)
    \/ \E s \in Sessoes : (\A o \in Sessoes \ {s} : Em(o, "idle")) /\ numero_chamar_de_novo(s)
    \/ \E s \in Sessoes : (\A o \in Sessoes \ {s} : Em(o, "idle")) /\ numero_devolver(s)

SpecNumero == Init /\ [][NextNumero]_vars

\* the exploration starts before construction or with the registry in use
SpecNovo == (InitNovo \/ InitEmUso) /\ [][Next]_vars

\* logging in and out and editing protocols
PassoEdicao(s) ==
    \/ init_database(s)
    \/ \E usuario \in Logins, senha \in Senhas : login_select(s, usuario, senha)
    \/ login_update(s)
    \/ login_log(s)
    \/ login_falhou(s)
    \/ logout(s)
    \/ \E id \in 1..seq.protocolos : protocolos_editar(s, id)
    \/ editar_protocolo_sair(s)
    \/ \E titulo \in Titulos, tipo \in Tipos, status \in StatusOpcoes,
          sol \in 0..seq.solicitantes :
          editar_protocolo_salvar(s, titulo, tipo, status, sol)
    \/ protocolos_atualizar_select(s)
    \/ protocolos_atualizar_update(s)
    \/ protocolos_atualizar_log(s)

NextEdicao == Tick \/ \E s \in Sessoes : PassoEdicao(s)

\* the exploration starts after construction or with two edit forms open
SpecEdicao == (InitConstruido \/ InitEditando) /\ [][NextEdicao]_vars

\* the exploration starts after construction or with two administrators
SpecAdmins == (InitConstruido \/ InitAdmins) /\ [][Next]_vars

\* the exploration starts after construction or with a concluded protocol
SpecCiclo == (InitConstruido \/ InitConcluido) /\ [][Next]_vars

----------------------------------------------------------------------------
(* Reading: LogManager.buscar_logs, LogManager.estatisticas_logs and the     *)
(* listings, run by the pages that show them                                 *)

\* DATE(timestamp)
Data(t) == t \div TicksPorDia

\* the filters of buscar_logs: a filter is {} when the argument is None (or
\* falsy) and {v} otherwise.  The page passes limite 50 and 200; the small
\* limits stand for them on the short logs explored here.
Filtros ==
    [filtro_usuario : {{}, {1}},
     filtro_tabela  : {{}, {"usuarios"}},
     filtro_acao    : {{}, {"LOGIN"}},
     data_inicio    : {{}, {1}},
     data_fim       : {{}, {0}},
     limite         : {1, 2, 50}]

\* WHERE 1=1 AND ... : every supplied filter must hold
PassaFiltros(e, f) ==
    /\ f.filtro_usuario = {} \/ e.usuario_id \in f.filtro_usuario
    /\ f.filtro_tabela = {} \/ e.tabela_afetada \in f.filtro_tabela
    /\ f.filtro_acao = {} \/ e.acao \in f.filtro_acao
    /\ \A d \in f.data_inicio : Data(e.timestamp) >= d
    /\ \A d \in f.data_fim : Data(e.timestamp) <= d

\* SELECT l.*, u.nome AS usuario_nome ... LEFT JOIN usuarios u ON l.usuario_id = u.id
LinhaDeLog(e) ==
    [id |-> e.id, usuario_id |-> e.usuario_id, acao |-> e.acao,
     tabela_afetada |-> e.tabela_afetada, registro_id |-> e.registro_id,
     detalhes |-> e.detalhes, timestamp |-> e.timestamp, status |-> e.status,
     usuario_nome |-> IF \E u \in usuarios : u.id = e.usuario_id
                      THEN (CHOOSE u \in usuarios : u.id = e.usuario_id).nome
                      ELSE NULO]

Inverso(q) == [i \in 1..Len(q) |-> q[Len(q) + 1 - i]]

RECURSIVE PorTimestampDesc(_, _)
\* ORDER BY timestamp DESC as a sorter does it that keeps rows with the same
\* timestamp in the order it met them: the rows of time t, t-1, ..., 0
PorTimestampDesc(q, t) ==
    IF t < 0 THEN <<>>
    ELSE SelectSeq(q, LAMBDA e : e.timestamp = t) \o PorTimestampDesc(q, t - 1)

Primeiros(q, n) == SubSeq(q, 1, IF n < Len(q) THEN n ELSE Len(q))

\* LogManager.buscar_logs: the rows it may return.  ORDER BY l.timestamp DESC
\* names no second key, and CURRENT_TIMESTAMP has a resolution of one second:
\* rows written within the same second come in the order of writing (what
\* SQLite's sorter does for this query) or in the reverse order (what a
\* backward scan would do).  Entries are written with non-decreasing
\* timestamps, so the reverse of the log is ordered by timestamp too.
buscar_logs(f) ==
    LET linhas == [i \in DOMAIN logs |-> LinhaDeLog(logs[i])]
        passam == SelectSeq(linhas, LAMBDA e : PassaFiltros(e, f))
    IN {Primeiros(PorTimestampDesc(passam, agora), f.limite),
        Primeiros(Inverso(passam), f.limite)}

\* the daily statistics as they would be without the WHERE clause
NaJanela_sem_where(t) == TRUE

\* WHERE timestamp >= datetime('now', '-30 days')
NaJanela(t) == t >= agora - DiasDaJanela * TicksPorDia

RECURSIVE Diario(_)
\* SELECT DATE(timestamp) as data, COUNT(*) as total ... GROUP BY
\* DATE(timestamp) ORDER BY data: the rows of the days d, d+1, ..., today
Diario(d) ==
    IF d > Data(agora) THEN <<>>
    ELSE LET total == Cardinality({i \in DOMAIN logs :
                         NaJanela(logs[i].timestamp) /\ Data(logs[i].timestamp) = d})
         IN (IF total > 0 THEN <<[data |-> d, total |-> total]>> ELSE <<>>)
            \o Diario(d + 1)

\* LogManager.estatisticas_logs: entries per action, per user, and per day of
\* the last 30 days
estatisticas_logs ==
    LET Conta(P(_)) == Cardinality({i \in DOMAIN logs : P(logs[i])})
    IN [df_acoes    |-> [a \in {logs[i].acao : i \in DOMAIN logs} |->
                            Conta(LAMBDA e : e.acao = a)],
        df_usuarios |-> [u \in {logs[i].usuario_id : i \in DOMAIN logs} |->
                            Conta(LAMBDA e : e.usuario_id = u)],
        df_diario   |-> Diario(0)]

\* pagina_logs (admins only): buscar_logs is called and returns
pagina_logs_buscar(s, f) ==
    /\ Em(s, "page")
    /\ verificar_permissao(s, "admin")
    /\ \E df \in buscar_logs(f) :
          Vai(s, [pc |-> "pagina_logs_estatisticas", alvo |-> 0, args |-> f,
                  antigos |-> {df}])
    /\ UNCHANGED <<usuarios, solicitantes, protocolos, logs, seq, agora, sess, passos>>

\* pagina_logs: estatisticas_logs is called and returns
pagina_logs_estatisticas(s) ==
    /\ Em(s, "pagina_logs_estatisticas")
    /\ Vai(s, [run[s] EXCEPT !.pc = "pagina_logs_mostrar",
                             !.antigos = {estatisticas_logs}])
    /\ UNCHANGED <<usuarios, solicitantes, protocolos, logs, seq, agora, sess, passos>>

\* pagina_logs: the charts are drawn and the run ends
pagina_logs_mostrar(s) ==
    /\ Em(s, "pagina_logs_mostrar")
    /\ Fim(s)
    /\ UNCHANGED <<usuarios, solicitantes, protocolos, logs, seq, agora, sess, passos>>

\* the listings and lookups the pages run to show their content
Leituras ==
    {"listar_usuarios", "solicitantes_listar", "solicitantes_buscar_por_id",
     "protocolos_listar", "protocolos_buscar_por_id"}

\* what a listing or lookup returns
Leitura(s, op, id) ==
    CASE op = "listar_usuarios" -> listar_usuarios
      [] op = "solicitantes_listar" -> solicitantes_listar
      [] op = "solicitantes_buscar_por_id" -> solicitantes_buscar_por_id(id)
      [] op = "protocolos_listar" -> protocolos_listar(0, "admin")
      [] OTHER -> protocolos_buscar_por_id(id)

\* a page is shown: dashboard and the lists run listar, the edit pages run
\* buscar_por_id, gerenciar_usuarios (admins only) runs listar_usuarios
ler(s, op, id) ==
    /\ Pagina(s)
    /\ op = "listar_usuarios" => verificar_permissao(s, "admin")
    /\ Vai(s, [pc |-> "mostrar", alvo |-> id, args |-> [op |-> op],
               antigos |-> Leitura(s, op, id)])
    /\ UNCHANGED <<usuarios, solicitantes, protocolos, logs, seq, agora, sess, passos>>

\* mostrar as it would be if showing a page were recorded in the audit log
mostrar_com_registro(s) ==
    /\ Em(s, "mostrar")
    /\ registrar_log(UserData(s).id, "VISUALIZAR", "usuarios", 0,
            [texto |-> "Página visualizada"], "sucesso")
    /\ Fim(s)
    /\ UNCHANGED <<usuarios, solicitantes, protocolos, seq, agora, sess, passos>>

\* the page is drawn from what was read and the run ends
mostrar(s) ==
    /\ Em(s, "mostrar")
    /\ Fim(s)
    /\ UNCHANGED <<usuarios, solicitantes, protocolos, logs, seq, agora, sess, passos>>

PassoLeitura(s) ==
    \/ init_database(s)
    \/ \E usuario \in Logins : \E senha \in Senhas : login_select(s, usuario, senha)
    \/ login_update(s)
    \/ login_log(s)
    \/ login_falhou(s)
    \/ logout(s)
    \/ \E f \in Filtros : pagina_logs_buscar(s, f)
    \/ pagina_logs_estatisticas(s)
    \/ pagina_logs_mostrar(s)
    \/ \E op \in Leituras : \E id \in 1..2 : ler(s, op, id)
    \/ mostrar(s)

NextLeitura == Tick \/ \E s \in Sessoes : PassoLeitura(s)

\* logging in and out and looking at the pages
SpecLeitura == Init /\ [][NextLeitura]_vars

\* time passes, up to a later limit
TickAte(limite) ==
    /\ agora < limite
    /\ agora' = agora + 1
    /\ UNCHANGED <<usuarios, solicitantes, protocolos, logs, seq, sess, run, passos>>

\* pagina_logs, tab "Logs Recentes": buscar_logs(limite=50)
FiltroRecentes ==
    [filtro_usuario |-> {}, filtro_tabela |-> {}, filtro_acao |-> {},
     data_inicio |-> {}, data_fim |-> {}, limite |-> 50]

PassoEstatisticas(s) ==
    \/ init_database(s)
    \/ \E usuario \in Logins : \E senha \in Senhas : login_select(s, usuario, senha)
    \/ login_update(s)
    \/ login_log(s)
    \/ login_falhou(s)
    \/ logout(s)
    \/ pagina_logs_buscar(s, FiltroRecentes)
    \/ pagina_logs_estatisticas(s)
    \/ pagina_logs_mostrar(s)

NextEstatisticas ==
    TickAte(MaxAgoraEstatisticas) \/ \E s \in Sessoes : PassoEstatisticas(s)

\* logging in and out and looking at the log page while days pass
SpecEstatisticas == Init /\ [][NextEstatisticas]_vars

----------------------------------------------------------------------------
(* The audit write fails.  registrar_log has no handler of its own and none *)
(* of its callers wraps it: when its INSERT raises (the database stays      *)
(* locked by another writer past the busy timeout, the disk is full), the   *)
(* exception leaves the calling method where the log call stands.           *)

\* the positions where the next statement of the run is a call of registrar_log
PosicoesDeLog ==
    {"login_log", "login_falhou", "criar_usuario_log", "atualizar_usuario_log",
     "alterar_senha_log", "deletar_usuario_log", "solicitantes_criar_log",
     "solicitantes_atualizar_log", "solicitantes_deletar_log",
     "protocolos_criar_log", "protocolos_atualizar_log", "protocolos_deletar_log"}

\* registrar_log raises inside a method: the method does not return, the page
\* code after the call is not run (editar_solicitante catches the exception
\* and only reports it), and what was committed before stays committed
registrar_log_falha(s) ==
    /\ run[s].pc \in PosicoesDeLog
    /\ Fim(s)
    /\ UNCHANGED <<usuarios, solicitantes, protocolos, logs, seq, agora, sess, passos>>

\* registrar_log raises inside logout(): the session keys are not deleted
logout_falha(s) ==
    /\ Em(s, "page")
    /\ Autenticado(s)
    /\ Fim(s)
    /\ UNCHANGED <<usuarios, solicitantes, protocolos, logs, seq, agora, sess, passos>>

NextFalha ==
    \/ Next
    \/ \E s \in Sessoes : registrar_log_falha(s)
    \/ \E s \in Sessoes : logout_falha(s)

\* the program with audit writes that may fail
SpecFalha == Init /\ [][NextFalha]_vars

----------------------------------------------------------------------------
(* Audit trail of the create, update and delete methods *)

\* the nine methods: the table each writes, the action it logs, and the
\* position of its log write
C1_Metodos ==
    {[tabela |-> "usuarios",     acao |-> "CRIAR",     log |-> "criar_usuario_log"],
     [tabela |-> "usuarios",     acao |-> "ATUALIZAR", log |-> "atualizar_usuario_log"],
     [tabela |-> "usuarios",     acao |-> "DELETAR",   log |-> "deletar_usuario_log"],
     [tabela |-> "solicitantes", acao |-> "CRIAR",     log |-> "solicitantes_criar_log"],
     [tabela |-> "solicitantes", acao |-> "ATUALIZAR", log |-> "solicitantes_atualizar_log"],
     [tabela |-> "solicitantes", acao |-> "DELETAR",   log |-> "solicitantes_deletar_log"],
     [tabela |-> "protocolos",   acao |-> "CRIAR",     log |-> "protocolos_criar_log"],
     [tabela |-> "protocolos",   acao |-> "ATUALIZAR", log |-> "protocolos_atualizar_log"],
     [tabela |-> "protocolos",   acao |-> "DELETAR",   log |-> "protocolos_deletar_log"]}

\* every position inside one of the nine methods
C1_Posicoes ==
    {m.log : m \in C1_Metodos} \cup
    {"atualizar_usuario_select", "atualizar_usuario_update",
     "deletar_usuario_select", "deletar_usuario_delete",
     "solicitantes_atualizar_select", "solicitantes_atualizar_update",
     "solicitantes_deletar_select", "solicitantes_deletar_delete",
     "protocolos_criar_gerar", "protocolos_criar_insert",
     "protocolos_atualizar_select", "protocolos_atualizar_update",
     "protocolos_deletar_select", "protocolos_deletar_delete"}

C1_Tabela(nome, u, so, pr) ==
    CASE nome = "usuarios" -> u
      [] nome = "solicitantes" -> so
      [] OTHER -> pr

\* the write of method m on row alvo: the row appears, changes in place or
\* disappears, and no other row of any table changes
C1_Escrita(m, alvo) ==
    LET T  == C1_Tabela(m.tabela, usuarios, solicitantes, protocolos)
        T2 == C1_Tabela(m.tabela, usuarios', solicitantes', protocolos')
    IN /\ \A n \in {"usuarios", "solicitantes", "protocolos"} \ {m.tabela} :
             C1_Tabela(n, usuarios', solicitantes', protocolos')
                = C1_Tabela(n, usuarios, solicitantes, protocolos)
       /\ CASE m.acao = "CRIAR" ->
                 /\ \A x \in T : x.id # alvo
                 /\ \E r \in T2 : r.id = alvo /\ T2 = T \cup {r}
            [] m.acao = "ATUALIZAR" ->
                 /\ {r \in T2 : r.id # alvo} = {r \in T : r.id # alvo}
                 /\ {r.id : r \in T2} = {r.id : r \in T}
            [] OTHER -> T2 = {r \in T : r.id # alvo}

\* C1: every successful create, update or delete of a user, requester or
\* protocol writes only the row it is about and appends exactly one log
\* entry: no statement of the method before its log write touches the log,
\* and the log write appends one entry naming the entity's table, the row's
\* id, the acting user's id and the status 'sucesso'.
C1_UmLogPorOperacao ==
    [][\A s \in Sessoes : run'[s] # run[s] =>
         /\ run'[s].pc \in C1_Posicoes => logs' = logs
         /\ \A m \in C1_Metodos :
              /\ run'[s].pc = m.log => C1_Escrita(m, run'[s].alvo)
              /\ (run[s].pc = m.log /\ (m.acao = "CRIAR" \/ run[s].antigos # {})) =>
                   /\ Len(logs') = Len(logs) + 1
                   /\ SubSeq(logs', 1, Len(logs)) = logs
                   /\ logs'[Len(logs')].acao = m.acao
                   /\ logs'[Len(logs')].tabela_afetada = m.tabela
                   /\ logs'[Len(logs')].registro_id = run[s].alvo
                   /\ logs'[Len(logs')].usuario_id = UserData(s).id
                   /\ logs'[Len(logs')].status = "sucesso"
                   /\ run'[s].pc = "idle"
                   /\ <<usuarios, solicitantes, protocolos>>'
                         = <<usuarios, solicitantes, protocolos>>]_vars

\* an update and a deletion have been logged on top of the creations
C1_Registrado ==
    \E i, j, k \in DOMAIN logs :
        /\ logs[i].acao = "CRIAR" /\ logs[i].status = "sucesso"
        /\ logs[j].acao = "ATUALIZAR" /\ logs[j].status = "sucesso"
        /\ logs[k].acao = "DELETAR" /\ logs[k].status = "sucesso"

----------------------------------------------------------------------------
(* Protocol numbers *)

\* C2: whatever the interleaving of criar, atualizar and deletar, no two
\* stored protocols have the same numero_protocolo.
C2_NumeroUnico ==
    \A p, q \in protocolos : p # q => p.numero_protocolo # q.numero_protocolo

\* two interleaved calls of criar computed the same number; one has inserted
\* its row, the other's INSERT is next
C2_MesmoNumero ==
    \E s, o \in Sessoes :
        /\ Em(s, "protocolos_criar_insert")
        /\ Em(o, "protocolos_criar_log")
        /\ run[s].antigos = run[o].antigos
        /\ \E p \in protocolos : run[s].antigos = {p.numero_protocolo}

\* C3: without concurrency, every call of ProtocolosCRUD.criar succeeds,
\* also after deletions: its INSERT adds exactly one row, with status
\* 'Pendente', criado_por the caller and the number the call returns.
C3_CriarSempreSucede ==
    [][\A s \in Sessoes : (Em(s, "protocolos_criar_insert") /\ run'[s] # run[s]) =>
         /\ run'[s].pc = "protocolos_criar_log"
         /\ \E r \in protocolos' :
              /\ r \notin protocolos
              /\ protocolos' = protocolos \cup {r}
              /\ r.status = "Pendente"
              /\ r.criado_por = UserData(s).id
              /\ run[s].antigos = {r.numero_protocolo}]_vars

\* C4: a protocol number is unique over the lifetime of the registry: no two
\* successful calls of criar, for different protocols, return the same
\* number, also when the first protocol has been deleted in between.
C4_NumeroNuncaReutilizado ==
    \A i, j \in DOMAIN logs :
        (/\ logs[i].acao = "CRIAR" /\ logs[i].tabela_afetada = "protocolos"
         /\ logs[j].acao = "CRIAR" /\ logs[j].tabela_afetada = "protocolos"
         /\ logs[i].registro_id # logs[j].registro_id)
        => logs[i].detalhes.numero_protocolo # logs[j].detalhes.numero_protocolo

\* C5: ProtocolosCRUD.atualizar changes neither the numero_protocolo, nor the
\* criado_por, nor the data_criacao of the protocol it updates, changes no
\* other protocol row and adds or removes none; and no step of any operation
\* changes the number of a stored protocol.
C5_AtualizarPreserva ==
    [][/\ \A s \in Sessoes :
            (Em(s, "protocolos_atualizar_update") /\ run'[s] # run[s]) =>
               /\ {q.id : q \in protocolos'} = {p.id : p \in protocolos}
               /\ \A p \in protocolos : \E q \in protocolos' :
                     /\ q.id = p.id
                     /\ q.numero_protocolo = p.numero_protocolo
                     /\ q.criado_por = p.criado_por
                     /\ q.data_criacao = p.data_criacao
                     /\ p.id # run[s].alvo => q = p
       /\ \A p \in protocolos : \A q \in protocolos' :
            q.id = p.id => q.numero_protocolo = p.numero_protocolo]_vars

\* the UPDATE of atualizar has rewritten a stored protocol with another
\* title and another status
C5_Atualizado ==
    \E s \in Sessoes :
        /\ Em(s, "protocolos_atualizar_log")
        /\ \E p \in protocolos : \E a \in run[s].antigos :
              /\ p.id = run[s].alvo /\ a.id = p.id
              /\ p.titulo = run[s].args.titulo /\ p.titulo # a.titulo
              /\ p.status = run[s].args.status /\ p.status # a.status
              /\ p.numero_protocolo = a.numero_protocolo

----------------------------------------------------------------------------
(* Who may update and who may delete a protocol *)

\* the session's user is an admin or the creator of protocol p
C6_AdminOuCriador(s, p) ==
    /\ Autenticado(s)
    /\ UserData(s).nivel_acesso = "admin" \/ p.criado_por = UserData(s).id

C6_EmAtualizar(s) ==
    run[s].pc \in {"protocolos_atualizar_select", "protocolos_atualizar_update",
                   "protocolos_atualizar_log"}

\* C6: a protocol is editable by its creator and by any admin and by nobody
\* else: the page calls ProtocolosCRUD.atualizar on a stored protocol only for
\* a session whose user is an admin or the protocol's creator, no step of any
\* other session's run changes a stored protocol row, and a session found
\* editing a protocol it may not edit (or one that is gone) only has its
\* editing state cleared.
C6_SoAdminOuCriadorAtualiza ==
    [][\A s \in Sessoes : run'[s] # run[s] =>
         /\ (run[s].pc = "page" /\ run'[s].pc = "protocolos_atualizar_select") =>
               \E p \in protocolos : p.id = run'[s].alvo /\ C6_AdminOuCriador(s, p)
         /\ C6_EmAtualizar(s) =>
               \A p \in protocolos : p.id = run[s].alvo => C6_AdminOuCriador(s, p)
         /\ \A p \in protocolos : \A q \in protocolos' :
               (q.id = p.id /\ q # p) => (C6_EmAtualizar(s) /\ C6_AdminOuCriador(s, p))
         /\ (/\ run[s].pc = "page" /\ Autenticado(s) /\ sess[s].editando_protocolo # 0
             /\ \A p \in protocolos : p.id = sess[s].editando_protocolo
                                        => ~C6_AdminOuCriador(s, p)) =>
               /\ sess'[s].editando_protocolo = 0
               /\ run'[s].pc = "idle"
               /\ <<usuarios, solicitantes, protocolos, logs>>'
                     = <<usuarios, solicitantes, protocolos, logs>>]_vars

\* a user who is no admin has updated the protocol they created, while a
\* protocol of somebody else is stored too
C6_CriadorAtualizou ==
    \E s \in Sessoes :
        /\ Em(s, "protocolos_atualizar_log")
        /\ UserData(s).nivel_acesso = "usuario"
        /\ \E p \in protocolos : \E a \in run[s].antigos :
              p.id = run[s].alvo /\ a.id = p.id /\ p # a /\ p.criado_por = UserData(s).id
        /\ \E p \in protocolos : p.criado_por # UserData(s).id

\* C7: a protocol is deleted only by an admin: when the DELETE of
\* ProtocolosCRUD.deletar runs, its acting user (deletado_por_id) is a row of
\* usuarios with nivel_acesso = 'admin'.
C7_ExclusaoSoPorAdmin ==
    [][\A s \in Sessoes : (Em(s, "protocolos_deletar_delete") /\ run'[s] # run[s]) =>
         \E u \in usuarios : u.id = run[s].args.por /\ u.nivel_acesso = "admin"]_vars

----------------------------------------------------------------------------
(* Login *)

\* a row of tab has this login, the digest of this password, and ativo = 1
C8_Autentica(tab, usuario, senha) ==
    \E r \in tab : r.usuario = usuario /\ r.senha = hash_senha(senha) /\ r.ativo = 1

\* login returns a user if and only if a row has the login, the digest of
\* the password and ativo = 1, and then it returns that row
C8_LoginDecide(s) ==
    (run[s].pc = "page" /\ run'[s].pc \in {"login_update", "login_falhou"}) =>
       /\ run'[s].pc = "login_update"
             <=> C8_Autentica(usuarios, run'[s].args.usuario, run'[s].args.senha)
       /\ run'[s].pc = "login_falhou" <=> run'[s].antigos = {}
       /\ \A u \in run'[s].antigos : \E r \in usuarios :
             /\ r.id = u.id /\ r.usuario = u.usuario
             /\ r.usuario = run'[s].args.usuario /\ r.ativo = 1

\* C8 as stated: login returns a user if and only if a row of usuarios has
\* the login, the digest of the password and ativo = 1; and after
\* alterar_senha(id, p) the previous password of that user no longer
\* authenticates while p does.
C8_SenhaAnteriorRejeitada ==
    [][\A s \in Sessoes : run'[s] # run[s] =>
         /\ C8_LoginDecide(s)
         /\ Em(s, "alterar_senha_update") =>
              \A r \in usuarios : r.id = run[s].alvo =>
                 /\ C8_Autentica(usuarios', r.usuario, run[s].args.senha)
                 /\ \A q \in Senhas : r.senha = hash_senha(q) =>
                       ~C8_Autentica(usuarios', r.usuario, q)]_vars

\* C8, amended: login returns a user if and only if a row of usuarios has the
\* login, the digest of the password and ativo = 1; and after
\* alterar_senha(id, p) no password other than p authenticates that user,
\* and p does exactly when the user is active.
C8_SoSenhaNovaAutentica ==
    [][\A s \in Sessoes : run'[s] # run[s] =>
         /\ C8_LoginDecide(s)
         /\ Em(s, "alterar_senha_update") =>
              \A r \in usuarios : r.id = run[s].alvo =>
                 /\ C8_Autentica(usuarios', r.usuario, run[s].args.senha) <=> r.ativo = 1
                 /\ \A q \in Senhas \ {run[s].args.senha} :
                       ~C8_Autentica(usuarios', r.usuario, q)]_vars

\* the password of an active user was changed, and a login with another
\* password has just been turned down
C8_SenhaAntigaRecusada ==
    \E s \in Sessoes : \E u \in usuarios :
        /\ Em(s, "login_falhou")
        /\ u.usuario = run[s].args.usuario /\ u.ativo = 1
        /\ u.senha # hash_senha(run[s].args.senha)
        /\ logs # <<>>
        /\ logs[Len(logs)].acao = "ALTERAR_SENHA"
        /\ logs[Len(logs)].registro_id = u.id

\* C9: a login with a wrong password for an existing login and a login with
\* a nonexistent login both return no user, append exactly one entry with
\* acao LOGIN_FALHOU, usuario_id null and status 'erro' that depends on the
\* typed login only (0 is the NULL id), and change neither usuarios nor the
\* session.
C9_LoginFalhou ==
    [][\A s \in Sessoes : run'[s] # run[s] =>
         /\ (run[s].pc = "page" /\ run'[s].pc \in {"login_update", "login_falhou"}) =>
              /\ (\/ \A r \in usuarios : r.usuario # run'[s].args.usuario
                  \/ \E r \in usuarios : /\ r.usuario = run'[s].args.usuario
                                         /\ r.senha # hash_senha(run'[s].args.senha))
                 => (run'[s].pc = "login_falhou" /\ run'[s].antigos = {})
              /\ <<usuarios, solicitantes, protocolos, logs, sess>>'
                    = <<usuarios, solicitantes, protocolos, logs, sess>>
         /\ Em(s, "login_falhou") =>
              /\ logs' = Append(logs,
                    [id |-> Len(logs) + 1, usuario_id |-> 0,
                     acao |-> "LOGIN_FALHOU", tabela_afetada |-> "usuarios",
                     registro_id |-> 0,
                     detalhes |-> [texto |-> "Tentativa de login falhada para usuário",
                                   usuario |-> run[s].args.usuario],
                     timestamp |-> agora, status |-> "erro"])
              /\ <<usuarios, solicitantes, protocolos, sess>>'
                    = <<usuarios, solicitantes, protocolos, sess>>
              /\ ~Autenticado(s)
              /\ run'[s].pc = "idle"]_vars

\* both failures are on record: one for a login no row has, one for a login
\* that a row has
C9_AsDuasCausas ==
    \E i, j \in DOMAIN logs :
        /\ logs[i].acao = "LOGIN_FALHOU" /\ logs[j].acao = "LOGIN_FALHOU"
        /\ \A u \in usuarios : u.usuario # logs[i].detalhes.usuario
        /\ \E u \in usuarios : u.usuario = logs[j].detalhes.usuario

\* C10: a successful login returns the user of the typed login, sets the
\* ultimo_login of that user's row to the current time and changes no other
\* field of any user, and appends exactly one entry with acao LOGIN whose
\* usuario_id and registro_id are that user's id.
C10_LoginSucesso ==
    [][\A s \in Sessoes : run'[s] # run[s] =>
         /\ Em(s, "login_update") =>
              /\ \E user \in run[s].antigos :
                    /\ run[s].antigos = {user}
                    /\ usuarios' = {IF u.id = user.id
                                    THEN [u EXCEPT !.ultimo_login = agora] ELSE u
                                    : u \in usuarios}
              /\ <<solicitantes, protocolos, logs, sess>>'
                    = <<solicitantes, protocolos, logs, sess>>
              /\ run'[s].pc = "login_log"
         /\ Em(s, "login_log") =>
              /\ \E user \in run[s].antigos :
                    /\ run[s].antigos = {user}
                    /\ user.usuario = run[s].args.usuario
                    /\ sess'[s].user_data = {user}
                    /\ Len(logs') = Len(logs) + 1
                    /\ SubSeq(logs', 1, Len(logs)) = logs
                    /\ logs'[Len(logs')].acao = "LOGIN"
                    /\ logs'[Len(logs')].usuario_id = user.id
                    /\ logs'[Len(logs')].registro_id = user.id
              /\ <<usuarios, solicitantes, protocolos>>'
                    = <<usuarios, solicitantes, protocolos>>
              /\ run'[s].pc = "idle"]_vars

\* a user created with criar_usuario has just logged in at a later time than
\* the other users
C10_UsuarioCriadoEntrou ==
    \E s \in Sessoes : \E u \in usuarios :
        /\ Em(s, "idle") /\ Autenticado(s)
        /\ u.id = UserData(s).id /\ u.id # 1
        /\ u.ultimo_login = agora
        /\ \A v \in usuarios \ {u} : v.ultimo_login # agora
        /\ logs # <<>>
        /\ logs[Len(logs)].acao = "LOGIN"
        /\ logs[Len(logs)].usuario_id = u.id
        /\ \E i \in DOMAIN logs :
              /\ logs[i].acao = "CRIAR" /\ logs[i].tabela_afetada = "usuarios"
              /\ logs[i].registro_id = u.id

----------------------------------------------------------------------------
(* Users *)

\* C11: criar_usuario with a login that already exists leaves usuarios
\* unchanged and appends exactly one entry with acao CRIAR_USUARIO_ERRO and
\* status 'erro' (and returns False); no two users ever share a login.
C11_LoginDuplicado ==
    [][\A s \in Sessoes : run'[s] # run[s] =>
         /\ \A u, v \in usuarios' : u.usuario = v.usuario => u = v
         /\ Em(s, "criar_usuario_erro") =>
              /\ usuarios' = usuarios
              /\ Len(logs') = Len(logs) + 1
              /\ SubSeq(logs', 1, Len(logs)) = logs
              /\ logs'[Len(logs')].acao = "CRIAR_USUARIO_ERRO"
              /\ logs'[Len(logs')].status = "erro"]_vars

\* C12: a user never deletes themself: deletar_usuario is never called with
\* the id of the session user who performs the deletion, and no DELETAR
\* entry on usuarios has usuario_id equal to registro_id.
C12_NuncaExcluiASiMesmo ==
    /\ \A s \in Sessoes :
          run[s].pc \in {"deletar_usuario_select", "deletar_usuario_delete",
                         "deletar_usuario_log"}
             => /\ run[s].args.por = UserData(s).id
                /\ run[s].alvo # run[s].args.por
    /\ \A i \in DOMAIN logs :
          (logs[i].acao = "DELETAR" /\ logs[i].tabela_afetada = "usuarios")
             => logs[i].usuario_id # logs[i].registro_id

\* an admin has deleted another user
C12_OutroExcluido ==
    \E i \in DOMAIN logs :
        /\ logs[i].acao = "DELETAR" /\ logs[i].tabela_afetada = "usuarios"
        /\ logs[i].status = "sucesso"
        /\ \A u \in usuarios : u.id # logs[i].registro_id

\* C13: in every reachable state at least one user with nivel_acesso = admin
\* and ativo = 1 exists.
C13_SempreUmAdminAtivo ==
    \E u \in usuarios : u.nivel_acesso = "admin" /\ u.ativo = 1

----------------------------------------------------------------------------
(* The audit log *)

\* C14: the audit log is append-only: across every step the log before the
\* step is a prefix of the log after it, so no entry is removed or changed,
\* also when the user an entry refers to is deleted.
C14_SoAcrescenta ==
    [][/\ Len(logs') >= Len(logs)
       /\ SubSeq(logs', 1, Len(logs)) = logs]_vars

\* a user has been deleted and the entries of that user's actions are still
\* in the log
C14_EntradasDeUsuarioExcluido ==
    \E i, j \in DOMAIN logs :
        /\ logs[j].acao = "DELETAR" /\ logs[j].tabela_afetada = "usuarios"
        /\ logs[i].usuario_id = logs[j].registro_id
        /\ \A u \in usuarios : u.id # logs[i].usuario_id

\* a step of session s in which the audit write of a call that had
\* succeeded so far raises
C15_LogFalhou(s) ==
    /\ run[s].pc \in PosicoesDeLog \ {"login_falhou"}
    /\ run[s].pc \in {"atualizar_usuario_log", "deletar_usuario_log",
                      "solicitantes_atualizar_log", "solicitantes_deletar_log",
                      "protocolos_atualizar_log", "protocolos_deletar_log"}
          => run[s].antigos # {}
    /\ run'[s].pc = "idle"
    /\ logs' = logs

\* C15: a failure of the audit write does not fail the triggering operation:
\* the call still returns its normal result to the page, which goes on as
\* after a success (a login puts the user into the session, a saved protocol
\* edit leaves the edit form), and the primary mutation stays committed.
C15_FalhaDoLogNaoFalhaAOperacao ==
    [][\A s \in Sessoes : C15_LogFalhou(s) =>
         /\ <<usuarios, solicitantes, protocolos>>' = <<usuarios, solicitantes, protocolos>>
         /\ Em(s, "login_log") => sess'[s].user_data = run[s].antigos
         /\ Em(s, "protocolos_atualizar_log") => sess'[s].editando_protocolo = 0]_vars

----------------------------------------------------------------------------
(* Reading *)

PosicoesDeLeitura == {"pagina_logs_estatisticas", "pagina_logs_mostrar", "mostrar"}

\* C16: the read operations (buscar_logs, estatisticas_logs, listar_usuarios
\* and the listar and buscar_por_id of requesters and protocols) append no
\* entry to the audit log and leave every table unchanged: a step that calls
\* one of them, or that shows its result, changes neither the log nor a row.
C16_LeituraNaoEscreve ==
    [][\A s \in Sessoes :
          (run'[s] # run[s] /\ (run[s].pc \in PosicoesDeLeitura
                                \/ run'[s].pc \in PosicoesDeLeitura))
          => /\ logs' = logs
             /\ usuarios' = usuarios
             /\ solicitantes' = solicitantes
             /\ protocolos' = protocolos
             /\ seq' = seq]_vars

\* rows were read both from the audit log and from a table
C16_Lido ==
    /\ \E s \in Sessoes : run[s].pc = "mostrar" /\ run[s].antigos # {}
    /\ \E s \in Sessoes : /\ run[s].pc = "pagina_logs_mostrar"
                          /\ logs # <<>>

----------------------------------------------------------------------------
(* Access levels *)

\* the levels a caller may require: the two the program knows and another one
NiveisRequeridos == {"admin", "usuario", "gerente"}

\* C17: verificar_permissao(required), for a logged-in user of level r, is
\* true exactly when required is "admin" and r is "admin", or required is
\* "usuario" and r is "admin" or "usuario"; it is false when nobody is logged
\* in and when required is any other value.
C17_TabelaDePermissao ==
    \A s \in Sessoes : \A requerido \in NiveisRequeridos :
        verificar_permissao(s, requerido)
        <=> /\ sess[s].user_data # {}
            /\ \E u \in sess[s].user_data :
                  \/ requerido = "admin" /\ u.nivel_acesso = "admin"
                  \/ requerido = "usuario" /\ u.nivel_acesso \in {"admin", "usuario"}

\* an administrator and an ordinary user are logged in, and the four cells of
\* the table have the values claimed
C17_OsDoisNiveis ==
    \E a, b \in Sessoes :
        /\ sess[a].user_data # {} /\ UserData(a).nivel_acesso = "admin"
        /\ sess[b].user_data # {} /\ UserData(b).nivel_acesso = "usuario"
        /\ verificar_permissao(a, "admin") /\ verificar_permissao(a, "usuario")
        /\ ~verificar_permissao(b, "admin") /\ verificar_permissao(b, "usuario")

----------------------------------------------------------------------------
(* Searching the audit log *)

\* the entries of the log that satisfy the filters f, in the order of writing
C18_Satisfazem(f) ==
    SelectSeq([i \in DOMAIN logs |-> LinhaDeLog(logs[i])],
              LAMBDA e : PassaFiltros(e, f))

\* C18: buscar_logs returns exactly the entries that satisfy every supplied
\* filter (user, table, action, data_inicio <= day of the timestamp <=
\* data_fim, bounds included, an absent filter constraining nothing), newest
\* first and cut to limite rows: the limite most recently written matching
\* entries, in reverse order of writing.
C18_MaisRecentesPrimeiro ==
    [][\A s \in Sessoes :
          (run[s].pc = "page" /\ run'[s].pc = "pagina_logs_estatisticas")
          => \A df \in run'[s].antigos :
                df = Primeiros(Inverso(C18_Satisfazem(run'[s].args)),
                               run'[s].args.limite)]_vars

----------------------------------------------------------------------------
(* Passwords and the audit log *)

\* what the forms take besides passwords; no password is among these values
C19_NaoSecretos == (Logins \cup Nomes \cup Emails \cup Niveis \cup {NULO}) \ Senhas

C19_Acoes == {"CRIAR", "ALTERAR_SENHA", "LOGIN", "LOGIN_FALHOU"}

\* C19: no log entry leaks a password.  The entries written by criar_usuario,
\* alterar_senha and login (success or failure) consist of a fixed text, ids,
\* login names and the other non-secret fields of the user, so that runs which
\* differ only in the password strings write the same log; and no entry of the
\* log has a field for a password or for its digest.
C19_SemSenhaNoLog ==
    \A i \in DOMAIN logs :
        LET e == logs[i]
            d == e.detalhes
        IN /\ "senha" \notin DOMAIN d
           /\ (e.tabela_afetada = "usuarios" /\ e.acao \in {"LOGIN", "LOGIN_FALHOU"})
              => /\ DOMAIN d = {"texto", "usuario"}
                 /\ d.texto \notin Senhas
                 /\ d.usuario \in C19_NaoSecretos
           /\ (e.tabela_afetada = "usuarios" /\ e.acao = "ALTERAR_SENHA")
              => /\ DOMAIN d = {"texto", "id"}
                 /\ d.texto \notin Senhas
                 /\ d.id = NumText(e.registro_id)
           /\ (e.tabela_afetada = "usuarios" /\ e.acao = "CRIAR")
              => /\ DOMAIN d = {"usuario_criado", "nome", "email", "nivel_acesso"}
                 /\ \A c \in DOMAIN d : d[c].v \in C19_NaoSecretos

\* the log holds an entry of each kind: a user was created, a password was
\* changed, a login succeeded and a login failed
C19_AsQuatroEntradas ==
    \A a \in C19_Acoes :
        \E i \in DOMAIN logs : logs[i].acao = a /\ logs[i].tabela_afetada = "usuarios"

----------------------------------------------------------------------------
(* The status of a protocol *)

\* C20: the status of a protocol follows Pendente -> Em Andamento ->
\* Concluído or Cancelado: a protocol is created as Pendente, its status is
\* always one of the four values, and once it is Concluído or Cancelado no
\* update made through the edit form brings it back to Pendente or Em Andamento.
C20_CicloDeVida ==
    [][/\ \A p \in protocolos' :
             (\A q \in protocolos : q.id # p.id) => p.status = "Pendente"
       /\ \A p \in protocolos' : p.status \in StatusOpcoes
       /\ \A q \in protocolos : \A p \in protocolos' :
             (p.id = q.id /\ q.status \in {"Concluído", "Cancelado"})
             => p.status \notin {"Pendente", "Em Andamento"}]_vars

----------------------------------------------------------------------------
(* Numbers generated in sequence *)

\* C21: on an empty table of protocols, two calls of gerar_numero_protocolo
\* one after the other, without concurrency, return PROT-{year}-0001 and then
\* PROT-{year}-0002, the year being the calendar year at the time of the call.
C21_UmDepoisDois ==
    [][\A s \in Sessoes :
          (/\ protocolos = {}
           /\ run[s].pc = "numero_chamar_de_novo"
           /\ run'[s].pc = "numero_devolver")
          => /\ run[s].args.primeiro = NumeroProtocolo(Ano(run[s].args.em), 1)
             /\ run'[s].antigos = {NumeroProtocolo(Ano(agora), 2)}]_vars

----------------------------------------------------------------------------
(* Initialization *)

C22_TemAdmin(tab) == \E u \in tab : u.nivel_acesso = "admin"

\* C22: init_database is idempotent.  Run on a database that holds a user of
\* level admin it changes no table: it adds no user, changes no user and
\* writes no log entry.  A run adds at most one user, and after a run that
\* went through a user of level admin exists, so that any number of
\* initializations seeds at most one default admin.
C22_InitIdempotente ==
    [][passos' = passos + 1 =>
         /\ C22_TemAdmin(usuarios)
            => /\ usuarios' = usuarios /\ seq' = seq
               /\ solicitantes' = solicitantes /\ protocolos' = protocolos
               /\ logs' = logs
         /\ Cardinality(usuarios' \ usuarios) <= 1
         /\ usuarios \subseteq usuarios'
         /\ (\E s \in Sessoes : run'[s].pc = "page" /\ run[s].pc = "idle")
            => C22_TemAdmin(usuarios')
         /\ Cardinality({u \in usuarios' : u.usuario = "admin"}) <= 1]_vars

\* the database has been initialized three times, the first time from nothing,
\* and holds the one default admin
C22_TresVezes ==
    /\ passos = 3
    /\ usuarios = {AdminPadrao(1, 1)}
    /\ seq.usuarios = 1

----------------------------------------------------------------------------
(* Daily statistics *)

\* the entries of day d that lie inside the window of the query made now
C23_NoDia(d) ==
    {i \in DOMAIN logs : /\ Data(logs[i].timestamp) = d
                         /\ logs[i].timestamp >= agora - DiasDaJanela * TicksPorDia}

\* C23: the per-day result of estatisticas_logs holds each calendar date at
\* most once and in ascending order, holds no date older than 30 days before
\* the time of the query, holds exactly the dates that have entries inside
\* the window, and gives for each of them the number of those entries.
C23_PorDia ==
    [][\A s \in Sessoes :
          (run[s].pc = "pagina_logs_estatisticas" /\ run'[s].pc = "pagina_logs_mostrar")
          => \A e \in run'[s].antigos :
               LET df == e.df_diario
               IN /\ \A i, j \in DOMAIN df : i < j => df[i].data < df[j].data
                  /\ \A i \in DOMAIN df :
                        /\ df[i].data >= Data(agora - DiasDaJanela * TicksPorDia)
                        /\ df[i].total > 0
                        /\ df[i].total = Cardinality(C23_NoDia(df[i].data))
                  /\ \A d \in 0..Data(agora) :
                        C23_NoDia(d) # {} => \E i \in DOMAIN df : df[i].data = d]_vars

\* statistics were computed in which an old day is left out and a day that
\* straddles the boundary of the window is counted in part
C23_ForaEMeio ==
    \E s \in Sessoes :
        /\ run[s].pc = "pagina_logs_mostrar"
        /\ \E e \in run[s].antigos :
              /\ e = estatisticas_logs
              /\ \E k \in DOMAIN logs : \A i \in DOMAIN e.df_diario :
                    e.df_diario[i].data # Data(logs[k].timestamp)
              /\ \E i \in DOMAIN e.df_diario :
                    e.df_diario[i].total <
                       Cardinality({k \in DOMAIN logs :
                                       Data(logs[k].timestamp) = e.df_diario[i].data})

----------------------------------------------------------------------------
(* Two creations at once *)

C24_Numero(s) == CHOOSE n \in run[s].antigos : TRUE

\* the INSERT of criar, whatever its number: one row with that number is
\* added and the call goes on to its log entry, or the number is taken, and
\* then the call ends there: no row, no log entry, no number returned
C24_Insert(s) ==
    (Em(s, "protocolos_criar_insert") /\ run'[s] # run[s]) =>
        IF \E p \in protocolos : p.numero_protocolo = C24_Numero(s)
        THEN /\ protocolos' = protocolos
             /\ logs' = logs
             /\ run'[s] = Ocioso
        ELSE /\ \E r \in protocolos' : /\ r \notin protocolos
                                       /\ protocolos' = protocolos \cup {r}
                                       /\ r.numero_protocolo = C24_Numero(s)
             /\ logs' = logs
             /\ run'[s].pc = "protocolos_criar_log"

\* C24: when two calls of criar interleave so that both run
\* gerar_numero_protocolo before either inserts, both compute the same number;
\* the later INSERT is rejected by the UNIQUE constraint, so that one protocol
\* row and one CRIAR entry result, and the rejected call changes neither the
\* table nor the log and returns no number.
C24_AmbasComOMesmoNumero ==
    [][/\ \A s, o \in Sessoes :
            (Em(s, "protocolos_criar_insert") /\ Em(o, "protocolos_criar_insert"))
            => C24_Numero(s) = C24_Numero(o)
       /\ \A s \in Sessoes : C24_Insert(s)]_vars

\* C24 for two calls that run gerar_numero_protocolo in the same calendar
\* year: both compute the same number, the later INSERT is rejected, one row
\* and one CRIAR entry result, and the rejected call changes neither the table
\* nor the log and returns no number.
C24_NoMesmoAnoOMesmoNumero ==
    [][/\ \A s, o \in Sessoes :
            (/\ Em(s, "protocolos_criar_insert") /\ Em(o, "protocolos_criar_insert")
             /\ C24_Numero(s).ano = C24_Numero(o).ano)
            => C24_Numero(s) = C24_Numero(o)
       /\ \A s \in Sessoes : C24_Insert(s)]_vars

\* two calls of criar have both computed their number, the same one, and
\* neither has inserted yet
C24_AmbasGeraram ==
    \E s, o \in Sessoes :
        /\ s # o
        /\ Em(s, "protocolos_criar_insert") /\ Em(o, "protocolos_criar_insert")
        /\ C24_Numero(s) = C24_Numero(o)
        /\ \A p \in protocolos : p.numero_protocolo # C24_Numero(s)

----------------------------------------------------------------------------
(* The write and its audit entry *)

\* the statement of method m on row alvo took effect in this step: the row
\* was inserted, the UPDATE found it, or the DELETE removed it
C25_Escreveu(m, alvo) ==
    LET T  == C1_Tabela(m.tabela, usuarios, solicitantes, protocolos)
        T2 == C1_Tabela(m.tabela, usuarios', solicitantes', protocolos')
    IN CASE m.acao = "CRIAR" ->
              (\A r \in T : r.id # alvo) /\ (\E r \in T2 : r.id = alvo)
         [] m.acao = "ATUALIZAR" ->
              (\E r \in T : r.id = alvo) /\ (\E r \in T2 : r.id = alvo)
         [] OTHER ->
              (\E r \in T : r.id = alvo) /\ (\A r \in T2 : r.id # alvo)

\* C25: the primary write always precedes its audit entry.  A 'sucesso' entry
\* for CRIAR, ATUALIZAR or DELETAR is appended only by a call that stands
\* after its committed write, and every call that comes to stand there has
\* made its write: a call that stops between the commit and the log write
\* leaves a write without an entry, and no entry is written for a write that
\* did not happen.
C25_EscritaAntesDoLog ==
    [][\A s \in Sessoes : run'[s] # run[s] =>
         /\ (/\ Len(logs') = Len(logs) + 1
             /\ logs'[Len(logs')].acao \in {"CRIAR", "ATUALIZAR", "DELETAR"}
             /\ logs'[Len(logs')].status = "sucesso")
            => \E m \in C1_Metodos :
                  /\ run[s].pc = m.log
                  /\ logs'[Len(logs')].acao = m.acao
                  /\ logs'[Len(logs')].tabela_afetada = m.tabela
                  /\ logs'[Len(logs')].registro_id = run[s].alvo
         /\ \A m \in C1_Metodos :
               (/\ run'[s].pc = m.log /\ run[s].pc # m.log
                /\ (m.acao = "CRIAR" \/ run'[s].antigos # {}))
               => C25_Escreveu(m, run'[s].alvo)]_vars

----------------------------------------------------------------------------
(* The before and after values of an update *)

\* the columns an ATUALIZAR entry records, per table
C26_Campos(tabela) ==
    CASE tabela = "usuarios" -> {"nome", "email", "nivel_acesso", "ativo"}
      [] tabela = "solicitantes" -> {"nome", "email", "telefone", "departamento"}
      [] OTHER -> {"titulo", "status", "tipo_documento"}

C26_Atualizacoes ==
    {[tabela |-> "usuarios", update |-> "atualizar_usuario_update"],
     [tabela |-> "solicitantes", update |-> "solicitantes_atualizar_update"],
     [tabela |-> "protocolos", update |-> "protocolos_atualizar_update"]}

\* C26: for every ATUALIZAR entry (users, requesters, protocols) the 'antes'
\* of each recorded field is the value stored in the row immediately before
\* the write of that update, and the 'depois' the value stored immediately
\* after it, also when two updates of the same row interleave.  At the write
\* of an update whose entry will be written, the row read for the entry is
\* the row stored, and the written row holds the new values.
C26_AntesEDepois ==
    [][\A s \in Sessoes : \A m \in C26_Atualizacoes :
          (/\ run[s].pc = m.update /\ run'[s] # run[s]
           /\ run[s].antigos # {})
          => LET T  == C1_Tabela(m.tabela, usuarios, solicitantes, protocolos)
                 T2 == C1_Tabela(m.tabela, usuarios', solicitantes', protocolos')
             IN \A a \in run[s].antigos : \A c \in C26_Campos(m.tabela) :
                   /\ \E r \in T : r.id = run[s].alvo /\ r[c] = a[c]
                   /\ \E r \in T2 :
                         /\ r.id = run[s].alvo
                         /\ r[c] = (IF c = "ativo" THEN SqlBool(run[s].args[c])
                                    ELSE run[s].args[c])]_vars

----------------------------------------------------------------------------
(* Updating or deleting a row that is gone *)

\* the positions of atualizar and deletar: at the SELECT, at the write, at
\* the log write
C27_Metodos ==
    {[tabela |-> "usuarios", select |-> "atualizar_usuario_select",
      escrita |-> "atualizar_usuario_update", log |-> "atualizar_usuario_log"],
     [tabela |-> "usuarios", select |-> "deletar_usuario_select",
      escrita |-> "deletar_usuario_delete", log |-> "deletar_usuario_log"],
     [tabela |-> "solicitantes", select |-> "solicitantes_atualizar_select",
      escrita |-> "solicitantes_atualizar_update", log |-> "solicitantes_atualizar_log"],
     [tabela |-> "solicitantes", select |-> "solicitantes_deletar_select",
      escrita |-> "solicitantes_deletar_delete", log |-> "solicitantes_deletar_log"],
     [tabela |-> "protocolos", select |-> "protocolos_atualizar_select",
      escrita |-> "protocolos_atualizar_update", log |-> "protocolos_atualizar_log"],
     [tabela |-> "protocolos", select |-> "protocolos_deletar_select",
      escrita |-> "protocolos_deletar_delete", log |-> "protocolos_deletar_log"]}

\* the call of session s found no row with its id
C27_SemLinha(s, m) ==
    \/ /\ run[s].pc = m.select
       /\ \A r \in C1_Tabela(m.tabela, usuarios, solicitantes, protocolos) :
             r.id # run[s].alvo
    \/ /\ run[s].pc \in {m.escrita, m.log}
       /\ run[s].antigos = {}

\* C27: atualizar or deletar (users, requesters, protocols) called with an id
\* that is not in the table fails with an error instead of returning True:
\* no step of the call changes a table or appends a log entry, the call ends
\* at its log write at the latest, and the page does not go on as after a
\* success.
C27_IdAusenteFalha ==
    [][\A s \in Sessoes : \A m \in C27_Metodos :
          (C27_SemLinha(s, m) /\ run'[s] # run[s])
          => /\ <<usuarios, solicitantes, protocolos, seq>>'
                   = <<usuarios, solicitantes, protocolos, seq>>
             /\ logs' = logs
             /\ sess' = sess
             /\ \/ run'[s] = Ocioso
                \/ /\ run[s].pc # m.log
                   /\ run'[s].pc \in {m.escrita, m.log}
                   /\ run'[s].antigos = {}]_vars

\* two sessions act on the same row: the call of one of them stands at its
\* log write having found no row, the other having deleted it
C27_LinhaSumiu ==
    \E s \in Sessoes : \E m \in C27_Metodos :
        /\ run[s].pc = m.log
        /\ run[s].antigos = {}
        /\ \E i \in DOMAIN logs :
              /\ logs[i].acao = "DELETAR" /\ logs[i].tabela_afetada = m.tabela
              /\ logs[i].registro_id = run[s].alvo
              /\ logs[i].usuario_id # 0

----------------------------------------------------------------------------
(* init_database when no admin is left *)

\* C28: from every reachable state of the usuarios table, init_database
\* completes without error (the script run goes on to its page) and
\* afterwards at least one user with nivel_acesso = admin exists, also when
\* a user with login 'admin' exists with the role usuario.
C28_InitDeixaAdmin ==
    [][passos' # passos
          => /\ \E s \in Sessoes : run[s].pc = "idle" /\ run'[s].pc = "page"
             /\ \E u \in usuarios' : u.nivel_acesso = "admin"]_vars

----------------------------------------------------------------------------
(* Deleting a requester or a user that protocols refer to *)

\* session s deletes a row of the table that has a protocol referring to it
C29_ApagaReferido(s, tabela) ==
    /\ run[s].antigos # {}
    /\ \/ /\ tabela = "solicitantes"
          /\ run[s].pc \in {"solicitantes_deletar_delete", "solicitantes_deletar_log"}
          /\ \E q \in protocolos : q.solicitante_id = run[s].alvo
       \/ /\ tabela = "usuarios"
          /\ run[s].pc \in {"deletar_usuario_delete", "deletar_usuario_log"}
          /\ \E q \in protocolos : q.criado_por = run[s].alvo

\* the DELETAR entry of the deletion that session s has under way
C29_Entrada(s, e, tabela) ==
    /\ e.acao = "DELETAR" /\ e.tabela_afetada = tabela
    /\ e.registro_id = run[s].alvo /\ e.status = "sucesso"

\* C29: SolicitantesCRUD.deletar and AuthManager.deletar_usuario succeed also
\* when protocols refer to the deleted row: the row is removed, the DELETAR
\* entry is written and the call returns; every protocol row is unchanged, so
\* afterwards those protocols keep a solicitante_id or criado_por that
\* matches no row, and listar returns them with a null requester or creator
\* name.
C29_ApagaSemCascata ==
    [][\A s \in Sessoes : \A tabela \in {"solicitantes", "usuarios"} :
          (C29_ApagaReferido(s, tabela) /\ run'[s] # run[s])
          => /\ protocolos' = protocolos
             /\ \A r \in C1_Tabela(tabela, usuarios', solicitantes', protocolos') :
                   r.id # run[s].alvo
             /\ IF run[s].pc \in {"solicitantes_deletar_delete", "deletar_usuario_delete"}
                THEN run'[s].pc \in {"solicitantes_deletar_log", "deletar_usuario_log"}
                ELSE /\ run'[s] = Ocioso
                     /\ Len(logs') = Len(logs) + 1
                     /\ C29_Entrada(s, logs'[Len(logs')], tabela)
             /\ \A q \in protocolos :
                   /\ q.solicitante_id = run[s].alvo /\ tabela = "solicitantes"
                      => \E l \in listar(0, "admin")' :
                            l.id = q.id /\ l.solicitante_id = run[s].alvo
                            /\ l.solicitante_nome = {}
                   /\ q.criado_por = run[s].alvo /\ tabela = "usuarios"
                      => \E l \in listar(0, "admin")' :
                            l.id = q.id /\ l.criado_por = run[s].alvo
                            /\ l.criado_por_nome = {}]_vars

\* a requester that a protocol refers to has been deleted: the DELETAR entry
\* is written and listar returns the protocol without a requester name
C29_ReferenciaSolta ==
    \E l \in listar(0, "admin") :
        /\ l.solicitante_nome = {}
        /\ \E i \in DOMAIN logs :
              /\ logs[i].acao = "DELETAR" /\ logs[i].tabela_afetada = "solicitantes"
              /\ logs[i].registro_id = l.solicitante_id
              /\ logs[i].status = "sucesso"

----------------------------------------------------------------------------
(* The rights of an open session *)

\* the step is logout() of session s: the LOGOUT entry of its user is
\* written and the session state is cleared
C30_Logout(s) ==
    /\ run[s].pc = "page" /\ run'[s] = Ocioso
    /\ Len(logs') = Len(logs) + 1
    /\ logs'[Len(logs')].acao = "LOGOUT"
    /\ logs'[Len(logs')].usuario_id = UserData(s).id
    /\ sess'[s] = SessaoVazia

\* the access decisions taken for session s are the same after the step
C30_MesmasDecisoes(s) ==
    /\ sess'[s].user_data = sess[s].user_data
    /\ \A n \in {"admin", "usuario"} :
          verificar_permissao(s, n)' = verificar_permissao(s, n)
    /\ is_admin(s)' = is_admin(s)
    /\ \A p \in protocolos \cup protocolos' :
          pode_editar(s, p)' = pode_editar(s, p)

\* C30: access decisions depend only on the identity and role the session
\* captured at login: no step, a change of the user's nivel_acesso or ativo
\* or the deletion of the user's row included, changes the result of
\* verificar_permissao or of the protocol edit and delete checks of a logged-in
\* session until logout() clears the session state.
C30_DireitosDoLogin ==
    [][\A s \in Sessoes :
          Autenticado(s) => (C30_Logout(s) \/ C30_MesmasDecisoes(s))]_vars

\* the row of a logged-in session's user has been deleted by the other
\* session, and the session still passes the check and may edit its
\* protocol
C30_LinhaApagada ==
    \E s \in Sessoes :
        /\ Autenticado(s)
        /\ verificar_permissao(s, "usuario")
        /\ \A u \in usuarios : u.id # UserData(s).id
        /\ \E p \in protocolos : pode_editar(s, p)
        /\ \E i \in DOMAIN logs :
              /\ logs[i].acao = "DELETAR" /\ logs[i].tabela_afetada = "usuarios"
              /\ logs[i].registro_id = UserData(s).id

====
